---------------------------- MODULE Spec2Model ----------------------------
(***************************************************************************)
(* A model of the video catalog page (class VideoCatalog): the record      *)
(* store, the search handler, the sort-and-filter pipeline, the initial    *)
(* load, the popstate reload and the periodic refresh.                     *)
(*                                                                         *)
(* Strings are sequences of one-character strings, so that toLowerCase,    *)
(* trim, includes and localeCompare are computed and not assumed.          *)
(***************************************************************************)
EXTENDS Integers, Sequences, FiniteSets, TLC

(***************************************************************************)
(* Bounds of the model.                                                    *)
(***************************************************************************)
\* the largest number of records a fetched document carries
MaxVideos == 2
\* how many times the 30 s interval timer fires
MaxTicks == 2
\* how many popstate events the browser delivers
MaxPopstate == 1
\* how many events the browser delivers in all: the user's (typing, keys,
\* select changes, clicks), the timer's ticks and the popstate events
MaxEvents == 2
\* the longest record list handed to the sort step on its own
MaxSortLen == 3
\* how many times the user types into a field of the upload form
MaxTyped == 1
\* how many times the user submits the upload form
MaxSubmits == 1
\* the largest number of records the document of the playback page carries
MaxPlayerVideos == 2
\* the largest number of records the suggestions are generated from
MaxSuggestVideos == 3
\* the largest number of events on the URL and thumbnail fields
MaxUrlEvents == 3
\* the largest number of calls of handleThumbnailError for one image
MaxImageErrors == 4

(***************************************************************************)
(* Strings.                                                                *)
(***************************************************************************)
toLowerCaseChar(c) ==
  CASE c = "A" -> "a"
    [] c = "B" -> "b"
    [] c = "C" -> "c"
    [] c = "D" -> "d"
    [] c = "F" -> "f"
    [] c = "G" -> "g"
    [] OTHER -> c

toLowerCase(s) == [i \in 1..Len(s) |-> toLowerCaseChar(s[i])]

RECURSIVE trimStart(_)
trimStart(s) ==
  IF s # <<>> /\ Head(s) = " " THEN trimStart(Tail(s)) ELSE s

RECURSIVE trimEnd(_)
trimEnd(s) ==
  IF s # <<>> /\ s[Len(s)] = " " THEN trimEnd(SubSeq(s, 1, Len(s) - 1)) ELSE s

trim(s) == trimEnd(trimStart(s))

\* String.prototype.includes: t occurs in s as a contiguous substring
includes(s, t) ==
  \E i \in 1..(Len(s) - Len(t) + 1) : SubSeq(s, i, i + Len(t) - 1) = t

\* the primary collation weight of a character: white space before letters,
\* letters in alphabetical order whatever their case
CollationRank(c) ==
  LET l == toLowerCaseChar(c)
  IN  CASE l = " " -> 0
        [] l = "a" -> 1
        [] l = "b" -> 2
        [] l = "c" -> 3
        [] l = "d" -> 4
        [] l = "f" -> 6
        [] l = "g" -> 7
        [] OTHER -> 9

RECURSIVE PrimaryCompare(_, _)
PrimaryCompare(a, b) ==
  IF a = <<>> /\ b = <<>> THEN 0
  ELSE IF a = <<>> THEN -1
  ELSE IF b = <<>> THEN 1
  ELSE IF CollationRank(Head(a)) < CollationRank(Head(b)) THEN -1
  ELSE IF CollationRank(Head(a)) > CollationRank(Head(b)) THEN 1
  ELSE PrimaryCompare(Tail(a), Tail(b))

\* the case (tertiary) difference of two strings that are equal up to case:
\* at the first difference the lower-case letter comes first
RECURSIVE CaseCompare(_, _)
CaseCompare(a, b) ==
  IF a = <<>> \/ b = <<>> THEN 0
  ELSE IF Head(a) = Head(b) THEN CaseCompare(Tail(a), Tail(b))
  ELSE IF Head(a) = toLowerCaseChar(Head(a)) THEN -1 ELSE 1

\* String.prototype.localeCompare in the default locale
localeCompare(a, b) ==
  IF PrimaryCompare(a, b) # 0 THEN PrimaryCompare(a, b) ELSE CaseCompare(a, b)

(***************************************************************************)
(* The video records a fetched document may carry.  dateAdded is the       *)
(* timestamp new Date(dateAdded) evaluates to; a record without a folder   *)
(* has the empty folder, which is falsy like undefined.  Record 5 has a     *)
(* dateAdded that does not parse: new Date of it is an Invalid Date, whose  *)
(* timestamp is NaN.  The documents of the page model carry records 1 to 4; *)
(* record 5 is sorted by the sort step on its own.                          *)
(***************************************************************************)
VideoIds == 1..4

\* the number NaN, outside the range of every timestamp and difference
NaN == -1000

RecordIds == VideoIds \cup { 5 }

Video(id) ==
  CASE id = 1 -> [id |-> 1, title |-> <<"A", "b">>, description |-> <<"b">>,
                  folder |-> <<"F">>, dateAdded |-> 2]
    [] id = 2 -> [id |-> 2, title |-> <<"C">>, description |-> <<"a", "b">>,
                  folder |-> <<"F", "b">>, dateAdded |-> 2]
    [] id = 3 -> [id |-> 3, title |-> <<"a", "b">>, description |-> <<>>,
                  folder |-> <<>>, dateAdded |-> 1]
    [] id = 4 -> [id |-> 4, title |-> <<"C">>, description |-> <<"b", " ", "d">>,
                  folder |-> <<"F">>, dateAdded |-> 3]
    [] id = 5 -> [id |-> 5, title |-> <<"b">>, description |-> <<>>,
                  folder |-> <<"F">>, dateAdded |-> NaN]

\* the documents data/videos.json may hold: up to MaxVideos records with
\* unique ids, in any order
Documents ==
  UNION { { d \in [1..n -> VideoIds] : \A i, j \in 1..n : i # j => d[i] # d[j] }
          : n \in 0..MaxVideos }

\* the values typed into the search box
SearchInputs == { <<>>, <<" ">>, <<"B", " ">>, <<"a", "b">> }

\* the option values of sortSelect
SortOptions == { "newest", "oldest", "title", "title-desc" }

ALL == <<"a", "l", "l">>

Undefined == -1


(***************************************************************************)
(* Array.prototype.sort: a stable sort by a comparator, given as a         *)
(* function on pairs of records; cmp[a, b] > 0 puts b before a.            *)
(***************************************************************************)
\* the result of the comparator as sort reads it: NaN counts as +0
SortCompare(cmp, a, b) == IF cmp[a, b] = NaN THEN 0 ELSE cmp[a, b]

\* an insertion that puts a record before the records it compares equal to
RECURSIVE SortedInsertUnstable(_, _, _)
SortedInsertUnstable(x, s, cmp) ==
  IF s = <<>> THEN <<x>>
  ELSE IF SortCompare(cmp, Head(s), x) >= 0 THEN <<x>> \o s
  ELSE <<Head(s)>> \o SortedInsertUnstable(x, Tail(s), cmp)

RECURSIVE SortedInsert(_, _, _)
SortedInsert(x, s, cmp) ==
  IF s = <<>> THEN <<x>>
  ELSE IF SortCompare(cmp, Head(s), x) > 0 THEN <<x>> \o s
  ELSE <<Head(s)>> \o SortedInsert(x, Tail(s), cmp)

RECURSIVE SortInto(_, _, _)
SortInto(s, acc, cmp) ==
  IF s = <<>> THEN acc ELSE SortInto(Tail(s), SortedInsert(Head(s), acc, cmp), cmp)

sort(s, cmp) == SortInto(s, <<>>, cmp)

\* the comparator is a consistent comparator for the records of s: the
\* relation "compares equal" is an equivalence, "compares less" is transitive
\* and the two arguments exchanged give the opposite sign
ConsistentComparator(s, cmp) ==
  LET S == { s[i] : i \in 1..Len(s) }
      c(a, b) == SortCompare(cmp, a, b)
  IN  /\ \A a \in S : c(a, a) = 0
      /\ \A a, b \in S : c(a, b) = 0 => c(b, a) = 0
      /\ \A a, b, d \in S : /\ (c(a, b) = 0 /\ c(b, d) = 0) => c(a, d) = 0
                            /\ (c(a, b) < 0 /\ c(b, d) < 0) => c(a, d) < 0
                            /\ (c(a, b) > 0 /\ c(b, d) > 0) => c(a, d) > 0

\* the orders of the records of s
Orderings(s) ==
  { [i \in 1..Len(s) |-> s[p[i]]] :
      p \in { q \in [1..Len(s) -> 1..Len(s)] :
                \A i, j \in 1..Len(s) : i # j => q[i] # q[j] } }

\* the lists sort may leave: the stable sort under a consistent comparator,
\* an implementation-defined order of the same records otherwise
SortOutcomes(s, cmp) ==
  IF ConsistentComparator(s, cmp) THEN { sort(s, cmp) } ELSE Orderings(s)

\* the difference of two timestamps, NaN when one of them is
DateDifference(x, y) == IF x = NaN \/ y = NaN THEN NaN ELSE x - y

\* (a, b) => new Date(b.dateAdded) - new Date(a.dateAdded)
NewestFirst ==
  [a, b \in RecordIds |-> DateDifference(Video(b).dateAdded, Video(a).dateAdded)]

\* the comparator of "oldest" with its operands exchanged
OldestFirstSwapped ==
  [a, b \in RecordIds |-> DateDifference(Video(b).dateAdded, Video(a).dateAdded)]

\* (a, b) => new Date(a.dateAdded) - new Date(b.dateAdded)
OldestFirst ==
  [a, b \in RecordIds |-> DateDifference(Video(a).dateAdded, Video(b).dateAdded)]

\* (a, b) => a.title.localeCompare(b.title)
TitleAscending == [a, b \in RecordIds |-> localeCompare(Video(a).title, Video(b).title)]

\* (a, b) => b.title.localeCompare(a.title)
TitleDescending == [a, b \in RecordIds |-> localeCompare(Video(b).title, Video(a).title)]

\* a switch whose ascending title case is labelled "title-asc", a value
\* sortSelect never has
SortComparatorTitleAsc(sortKey) ==
  CASE sortKey = "oldest" -> OldestFirst
    [] sortKey = "title-asc" -> TitleAscending
    [] sortKey = "title-desc" -> TitleDescending
    [] OTHER -> NewestFirst

\* the switch on currentSort
SortComparator(sortKey) ==
  CASE sortKey = "oldest" -> OldestFirst
    [] sortKey = "title" -> TitleAscending
    [] sortKey = "title-desc" -> TitleDescending
    [] OTHER -> NewestFirst

(***************************************************************************)
(* The match flags the search and the pipeline compute for a record.       *)
(***************************************************************************)
titleMatch(v, term) == includes(toLowerCase(Video(v).title), term)

descriptionMatch(v, term) == includes(toLowerCase(Video(v).description), term)

folderMatch(v, term) ==
  Video(v).folder # <<>> /\ includes(toLowerCase(Video(v).folder), term)

exactMatch(v, term) ==
  toLowerCase(Video(v).title) = term \/ toLowerCase(Video(v).description) = term

TextFilter(v, term) ==
  titleMatch(v, term) \/ descriptionMatch(v, term) \/ folderMatch(v, term)

\* a folder filter by substring instead of equality
FolderFilterBySubstring(v, folder) == includes(Video(v).folder, folder)

FolderFilter(v, folder) == Video(v).folder = folder

(***************************************************************************)
(* applySortAndFilter: the list it stores in filteredVideos, from          *)
(* this.videos, the value of the search box, currentFolder and currentSort.*)
(***************************************************************************)
ApplySortAndFilter(vs, inputValue, folder, sortKey) ==
  LET searchTerm == trim(toLowerCase(inputValue))
      afterText == IF searchTerm # <<>>
                   THEN SelectSeq(vs, LAMBDA v : TextFilter(v, searchTerm))
                   ELSE vs
      afterFolder == IF folder # ALL
                     THEN SelectSeq(afterText, LAMBDA v : FolderFilter(v, folder))
                     ELSE afterText
  IN  sort(afterFolder, SortComparator(sortKey))

(***************************************************************************)
(* performSearch: the score it writes on a record, and the list it stores  *)
(* in filteredVideos before it calls applySortAndFilter.                   *)
(***************************************************************************)
\* a score that adds up the boosts of every field that matches
SearchScoreAdditive(v, term) ==
  (IF exactMatch(v, term) THEN 100 ELSE 0)
  + (IF titleMatch(v, term) THEN 50 ELSE 0)
  + (IF folderMatch(v, term) THEN 40 ELSE 0)
  + (IF descriptionMatch(v, term) THEN 25 ELSE 0)

SearchScore(v, term) ==
  IF exactMatch(v, term) THEN 100
  ELSE IF titleMatch(v, term) THEN 50
  ELSE IF folderMatch(v, term) THEN 40
  ELSE IF descriptionMatch(v, term) THEN 25
  ELSE 0

\* the _searchScore fields after the filter callback has visited every record
ScoresAfterSearch(vs, scores, term) ==
  IF term = <<>> THEN scores
  ELSE [v \in VideoIds |->
          IF \E i \in 1..Len(vs) : vs[i] = v THEN SearchScore(v, term) ELSE scores[v]]

\* b._searchScore || 0
ScoreOrZero(scores, v) == IF scores[v] = Undefined THEN 0 ELSE scores[v]

\* (a, b) => (b._searchScore || 0) - (a._searchScore || 0)
ByRelevance(scores) ==
  [a, b \in VideoIds |-> ScoreOrZero(scores, b) - ScoreOrZero(scores, a)]

SearchResult(vs, scores, term) ==
  IF term = <<>> THEN vs
  ELSE sort(SelectSeq(vs, LAMBDA v : TextFilter(v, term)),
            ByRelevance(ScoresAfterSearch(vs, scores, term)))

(***************************************************************************)
(* extractFolders, and the grid contents the render functions leave.       *)
(***************************************************************************)
ExtractFolders(vs) ==
  { Video(vs[i]).folder : i \in { j \in 1..Len(vs) : Video(vs[j]).folder # <<>> } }

\* renderVideos: the empty-catalog state, or the cards of filteredVideos
RenderVideos(filtered, vs) ==
  IF Len(filtered) = 0 /\ Len(vs) = 0 THEN "empty-state" ELSE "cards"

\* updateSearchResults: the no-results state over what renderVideos drew
UpdateSearchResults(term, filtered, grid) ==
  IF term # <<>> /\ Len(filtered) = 0 THEN "no-results" ELSE grid


\* updateFolderDropdown: the value folderSelect shows once its options are
\* rebuilt; a selection that no longer exists falls back to the first option
UpdateFolderDropdown(value, folderSet) ==
  IF value \in folderSet \/ value = ALL THEN value ELSE ALL

\* a comparison that sees only a catalog that grew
CountGrew(newCount, currentCount) == newCount > currentCount

\* a comparison that sees only a catalog that shrank
CountShrank(newCount, currentCount) == newCount < currentCount

\* newVideoCount !== currentVideoCount
CountChanged(newCount, currentCount) == newCount # currentCount

(***************************************************************************)
(* The state of the page.                                                  *)
(***************************************************************************)
VARIABLES
  videos,            \* this.videos, as the sequence of the records' ids
  filteredVideos,    \* this.filteredVideos
  searchScore,       \* the _searchScore field of every record object
  currentSort,       \* this.currentSort, always the value of sortSelect
  currentFolder,     \* this.currentFolder
  folders,           \* this.folders
  searchInput,       \* the value of the search box
  folderSelect,      \* the value of the folder dropdown
  debounceTimer,     \* TRUE while the 300 ms search timer is armed
  grid,              \* what catalogGrid shows
  initDone,          \* TRUE once init has run past its await
  pending,           \* the fetches in flight, by caller and stage
  nTicks,            \* interval ticks so far
  nPopstate,         \* popstate events so far
  nEvents,           \* events delivered so far
  lastOp,            \* the handler that ran last
  lastDoc,           \* data.videos of the refresh that ran last
  currentVideoCount, \* currentVideoCount of the refresh that ran last
  overlap            \* TRUE once a tick has fired with a refresh in flight

catalogVars == << videos, filteredVideos, searchScore, currentSort, currentFolder,
                  folders, searchInput, folderSelect, debounceTimer, grid, initDone,
                  pending, nTicks, nPopstate, nEvents, lastOp, lastDoc,
                  currentVideoCount, overlap >>

(***************************************************************************)
(* The sort step of applySortAndFilter and loadVideos on its own: a record *)
(* list, one of them with a date that does not parse, and a sort order.    *)
(***************************************************************************)
VARIABLES
  sortInput,         \* the array sort is called on
  sortOrder,         \* the sort order whose comparator is passed
  sortOutput         \* the array as sort leaves it

sortVars == << sortInput, sortOrder, sortOutput >>

(***************************************************************************)
(* The state of the upload page (class VideoUploader).                     *)
(***************************************************************************)
VARIABLES
  form,              \* the values of the form controls
  isSubmitting,      \* this.isSubmitting
  draft,             \* the videoDraft item of localStorage
  modals,            \* the video records of the instruction modals appended
  notification,      \* the notification shown last
  fieldErrors,       \* the controls that carry an error message
  uploadPc,          \* where the page is: init, idle, or handleSubmit at its await
  nTyped,            \* typing events so far
  nSubmits,          \* submit events so far
  lastSubmit         \* how the submit handler that ran last ended

uploadVars == << form, isSubmitting, draft, modals, notification, fieldErrors,
                 uploadPc, nTyped, nSubmits, lastSubmit >>

(***************************************************************************)
(* The state of the playback page (class VideoPlayer).                     *)
(***************************************************************************)
VARIABLES
  videoId,           \* this.videoId: the id parameter of the page's URL
  currentVideo,      \* this.currentVideo
  playerPc,          \* where init is: start, fetch, json, or done
  playerDoc,         \* data.videos of the document that was fetched
  playerView         \* what the videoPlayer container shows

playerVars == << videoId, currentVideo, playerPc, playerDoc, playerView >>

(***************************************************************************)
(* One URL and what each URL function of the two pages makes of it.        *)
(***************************************************************************)
VARIABLES
  givenUrl,          \* the URL handed to the functions
  uploadClass,       \* the branch validateDriveUrl of the upload page takes
  playbackClass,     \* the branch renderVideoPlayer of the playback page takes
  embedUrl,          \* the result of convertToEmbedUrl
  playbackSrc,       \* the result of convertGoogleDriveUrl
  youTubeId,         \* the result of extractYouTubeVideoId
  routedClass        \* the branch renderVideoPlayer takes on the converted URL

urlVars == << givenUrl, uploadClass, playbackClass, embedUrl, playbackSrc, youTubeId,
              routedClass >>

(***************************************************************************)
(* The records handed to generateSearchSuggestions, and its result.        *)
(***************************************************************************)
VARIABLES
  suggestVideos,     \* this.videos when generateSearchSuggestions is called
  searchSuggestions  \* this.searchSuggestions

suggestVars == << suggestVideos, searchSuggestions >>

(***************************************************************************)
(* The URL and thumbnail fields of the upload page and the calls of        *)
(* processDriveUrl that wait for their timer.                              *)
(***************************************************************************)
VARIABLES
  urlField,          \* the value of the driveUrl control
  thumbnailField,    \* the value of the thumbnailUrl control
  processing,        \* the file ids of the processDriveUrl calls at their await
  nUrlEvents,        \* events on the two fields so far
  lastThumbOp        \* the handler that ran last

thumbVars == << urlField, thumbnailField, processing, nUrlEvents, lastThumbOp >>

(***************************************************************************)
(* One thumbnail image of the catalog grid and the record of its card.     *)
(***************************************************************************)
VARIABLES
  image,             \* the img element: src, dataset.fallbackAttempted, onerror
  imageDriveUrl,     \* driveUrl of the record find returns, or Null for none
  lazy,              \* the test image of the lazy loader: its stage and its src
  imageWrites        \* the values handleThumbnailError has given src, in order

imageVars == << image, imageDriveUrl, lazy, imageWrites >>

\* what the handlers of the catalog page leave alone
outsideCatalog == << sortVars, uploadVars, playerVars, urlVars, suggestVars, thumbVars, imageVars >>

vars == << catalogVars, outsideCatalog >>

Callers == { "init", "popstate", "refresh" }
Stages == { "fetch", "json" }
\* a body response.json() rejects, or one without a videos array
Malformed == << 0 >>
NoScores == [v \in VideoIds |-> Undefined]

InitCatalog ==
  /\ videos = <<>>
  /\ filteredVideos = <<>>
  /\ searchScore = NoScores
  /\ currentSort = "newest"
  /\ currentFolder = ALL
  /\ folders = {}
  /\ searchInput = <<>>
  /\ folderSelect = ALL
  /\ debounceTimer = FALSE
  /\ grid = "loading"
  /\ initDone = FALSE
  /\ pending = [c \in Callers, st \in Stages |->
                  IF c = "init" /\ st = "fetch" THEN 1 ELSE 0]
  /\ nTicks = 0
  /\ nPopstate = 0
  /\ nEvents = 0
  /\ lastOp = "init"
  /\ lastDoc = <<>>
  /\ currentVideoCount = 0
  /\ overlap = FALSE

Take(c, st) == [pending EXCEPT ![c, st] = @ - 1]
Move(c) == [pending EXCEPT ![c, "fetch"] = @ - 1, ![c, "json"] = @ + 1]

\* the history of the refresh handler is kept only while it is the last handler
ForgetRefresh == lastDoc' = <<>> /\ currentVideoCount' = 0

(***************************************************************************)
(* loadVideos, with the continuation of its caller: init goes on to build  *)
(* the controls and render, the popstate listener renders.                 *)
(***************************************************************************)
\* the catch block, then renderVideos of the caller
LoadFailed(c) ==
  /\ videos' = <<>>
  /\ filteredVideos' = <<>>
  /\ searchScore' = NoScores
  \* showError writes the error state; the caller's renderVideos runs after it
  /\ grid' = RenderVideos(filteredVideos', videos')
  /\ folderSelect' = folderSelect
  /\ initDone' = TRUE
  /\ lastOp' = "loadFailed"
  /\ ForgetRefresh
  /\ UNCHANGED << currentSort, currentFolder, folders, searchInput, debounceTimer,
                  nTicks, nPopstate, nEvents, overlap >>
  /\ UNCHANGED outsideCatalog

\* the response of fetch arrives, or fetch rejects
LoadResponse(c, outcome) ==
  /\ c \in { "init", "popstate" }
  /\ pending[c, "fetch"] > 0
  /\ IF outcome = "ok"
     THEN /\ pending' = Move(c)
          /\ lastOp' = "response"
          /\ ForgetRefresh
          /\ UNCHANGED << videos, filteredVideos, searchScore, currentSort,
                          currentFolder, folders, searchInput, folderSelect,
                          debounceTimer, grid, initDone, nTicks, nPopstate,
                          nEvents, overlap >>
          /\ UNCHANGED outsideCatalog
     ELSE /\ pending' = Take(c, "fetch")
          /\ LoadFailed(c)

\* response.json() settles: with the document, or rejecting
LoadJson(c, body) ==
  /\ c \in { "init", "popstate" }
  /\ pending[c, "json"] > 0
  /\ pending' = Take(c, "json")
  /\ IF body = Malformed
     THEN LoadFailed(c)
     ELSE /\ videos' = sort(body, NewestFirst)
          /\ filteredVideos' = videos'
          /\ searchScore' = NoScores
          /\ folders' = ExtractFolders(videos')
          /\ folderSelect' = IF c = "init" THEN ALL
                             ELSE UpdateFolderDropdown(folderSelect, folders')
          /\ grid' = RenderVideos(filteredVideos', videos')
          /\ initDone' = TRUE
          /\ lastOp' = "loadVideos"
          /\ ForgetRefresh
          /\ UNCHANGED << currentSort, currentFolder, searchInput, debounceTimer,
                          nTicks, nPopstate, nEvents, overlap >>
          /\ UNCHANGED outsideCatalog

\* the popstate listener calls loadVideos
Popstate ==
  /\ initDone
  /\ nPopstate < MaxPopstate
  /\ nEvents < MaxEvents
  /\ nPopstate' = nPopstate + 1
  /\ nEvents' = nEvents + 1
  /\ pending' = [pending EXCEPT !["popstate", "fetch"] = @ + 1]
  /\ lastOp' = "popstate"
  /\ ForgetRefresh
  /\ UNCHANGED << videos, filteredVideos, searchScore, currentSort, currentFolder,
                  folders, searchInput, folderSelect, debounceTimer, grid,
                  initDone, nTicks, overlap >>
  /\ UNCHANGED outsideCatalog

(***************************************************************************)
(* refreshVideos, called by the interval timer init starts.                *)
(***************************************************************************)
RefreshTick ==
  /\ initDone
  /\ nTicks < MaxTicks
  /\ nEvents < MaxEvents
  /\ nTicks' = nTicks + 1
  /\ nEvents' = nEvents + 1
  /\ overlap' = (overlap \/ pending["refresh", "fetch"] + pending["refresh", "json"] > 0)
  /\ pending' = [pending EXCEPT !["refresh", "fetch"] = @ + 1]
  /\ lastOp' = "tick"
  /\ UNCHANGED << videos, filteredVideos, searchScore, currentSort, currentFolder,
                  folders, searchInput, folderSelect, debounceTimer, grid,
                  initDone, nPopstate, lastDoc, currentVideoCount >>
  /\ UNCHANGED outsideCatalog

\* a failed refresh that empties the catalog as the catch block of loadVideos does
RefreshFailedClears ==
  /\ lastOp' = "refreshFailed"
  /\ videos' = <<>>
  /\ filteredVideos' = <<>>
  /\ grid' = "error"
  /\ UNCHANGED << searchScore, currentSort, currentFolder,
                  folders, searchInput, folderSelect, debounceTimer,
                  initDone, nTicks, nPopstate, nEvents, lastDoc,
                  currentVideoCount, overlap >>
  /\ UNCHANGED outsideCatalog

\* a refresh that ends without reaching the comparison
RefreshFailed ==
  /\ lastOp' = "refreshFailed"
  /\ UNCHANGED << videos, filteredVideos, searchScore, currentSort, currentFolder,
                  folders, searchInput, folderSelect, debounceTimer, grid,
                  initDone, nTicks, nPopstate, nEvents, lastDoc,
                  currentVideoCount, overlap >>
  /\ UNCHANGED outsideCatalog

RefreshResponse(outcome) ==
  /\ pending["refresh", "fetch"] > 0
  /\ IF outcome = "ok"
     THEN /\ pending' = Move("refresh")
          /\ lastOp' = "response"
          /\ UNCHANGED << videos, filteredVideos, searchScore, currentSort,
                          currentFolder, folders, searchInput, folderSelect,
                          debounceTimer, grid, initDone, nTicks, nPopstate,
                          nEvents, lastDoc, currentVideoCount, overlap >>
          /\ UNCHANGED outsideCatalog
     ELSE /\ pending' = Take("refresh", "fetch")
          /\ RefreshFailed

\* a refresh that replaces videos and leaves filteredVideos as it was
RefreshJsonKeepsFiltered(body) ==
  /\ pending["refresh", "json"] > 0
  /\ pending' = Take("refresh", "json")
  /\ IF body = Malformed
     THEN RefreshFailed
     ELSE /\ lastOp' = "refreshVideos"
          /\ lastDoc' = body
          /\ currentVideoCount' = Len(videos)
          /\ IF CountChanged(Len(body), Len(videos))
             THEN /\ videos' = sort(body, NewestFirst)
                  /\ searchScore' = NoScores
                  /\ folders' = ExtractFolders(videos')
                  /\ folderSelect' = UpdateFolderDropdown(folderSelect, folders')
                  /\ filteredVideos' = filteredVideos
                  /\ grid' = RenderVideos(filteredVideos', videos')
             ELSE UNCHANGED << videos, searchScore, folders, folderSelect,
                               filteredVideos, grid >>
          /\ UNCHANGED << currentSort, currentFolder, searchInput, debounceTimer,
                          initDone, nTicks, nPopstate, nEvents, overlap >>
          /\ UNCHANGED outsideCatalog

RefreshJson(body) ==
  /\ pending["refresh", "json"] > 0
  /\ pending' = Take("refresh", "json")
  /\ IF body = Malformed
     THEN RefreshFailed
     ELSE /\ lastOp' = "refreshVideos"
          /\ lastDoc' = body
          /\ currentVideoCount' = Len(videos)
          /\ IF CountChanged(Len(body), Len(videos))
             THEN /\ videos' = sort(body, NewestFirst)
                  /\ searchScore' = NoScores
                  /\ folders' = ExtractFolders(videos')
                  /\ folderSelect' = UpdateFolderDropdown(folderSelect, folders')
                  /\ filteredVideos' = ApplySortAndFilter(videos', searchInput,
                                                          currentFolder, currentSort)
                  /\ grid' = RenderVideos(filteredVideos', videos')
             ELSE UNCHANGED << videos, searchScore, folders, folderSelect,
                               filteredVideos, grid >>
          /\ UNCHANGED << currentSort, currentFolder, searchInput, debounceTimer,
                          initDone, nTicks, nPopstate, nEvents, overlap >>
          /\ UNCHANGED outsideCatalog


(***************************************************************************)
(* The user's events, delivered once init has attached the listeners.      *)
(***************************************************************************)
UserEvent ==
  /\ initDone
  /\ nEvents < MaxEvents
  /\ nEvents' = nEvents + 1
  /\ ForgetRefresh
  /\ UNCHANGED << initDone, pending, nTicks, nPopstate, overlap >>
  /\ UNCHANGED outsideCatalog

\* performSearch(searchTerm), called with the value the search box holds, under
\* the currentFolder and currentSort the caller has set
PerformSearch(searchTerm, folder, sortKey) ==
  LET term == trim(toLowerCase(searchTerm))
      \* what the handler stores before it calls applySortAndFilter
      found == SearchResult(videos, searchScore, term)
  IN  /\ searchScore' = ScoresAfterSearch(videos, searchScore, term)
      /\ filteredVideos' = ApplySortAndFilter(videos, searchTerm, folder, sortKey)
      /\ grid' = UpdateSearchResults(term, filteredVideos',
                                     RenderVideos(filteredVideos', videos))
      /\ lastOp' = "performSearch"
      /\ UNCHANGED << videos, folders >>

\* the input listener: the box changes now, the search runs 300 ms later
TypeInput(value) ==
  /\ UserEvent
  /\ searchInput' = value
  /\ debounceTimer' = TRUE
  /\ lastOp' = "input"
  /\ UNCHANGED << videos, filteredVideos, searchScore, currentSort, currentFolder,
                  folders, folderSelect, grid >>

\* the debounce timer fires: performSearch(e.target.value)
DebounceFire ==
  /\ debounceTimer
  /\ debounceTimer' = FALSE
  /\ searchInput' = searchInput
  /\ PerformSearch(searchInput, currentFolder, currentSort)
  /\ ForgetRefresh
  /\ UNCHANGED << currentSort, currentFolder, folderSelect, initDone, pending,
                  nTicks, nPopstate, nEvents, overlap >>
  /\ UNCHANGED outsideCatalog

\* the keydown listener on Escape
EscapeKey ==
  /\ UserEvent
  /\ searchInput' = <<>>
  /\ PerformSearch(<<>>, currentFolder, currentSort)
  /\ UNCHANGED << currentSort, currentFolder, folderSelect, debounceTimer >>

\* the change, input and touchend listeners of sortSelect
SortChange(value) ==
  /\ UserEvent
  /\ currentSort' = value
  /\ filteredVideos' = ApplySortAndFilter(videos, searchInput, currentFolder,
                                          currentSort')
  /\ grid' = RenderVideos(filteredVideos', videos)
  /\ lastOp' = "applySortAndFilter"
  /\ UNCHANGED << videos, searchScore, currentFolder, folders, searchInput,
                  folderSelect, debounceTimer >>

\* the change and input listeners of folderSelect: value is one of its options
FolderChange(value) ==
  /\ UserEvent
  /\ value \in folders \cup { ALL }
  /\ folderSelect' = value
  /\ currentFolder' = value
  /\ filteredVideos' = ApplySortAndFilter(videos, searchInput, currentFolder',
                                          currentSort)
  /\ grid' = RenderVideos(filteredVideos', videos)
  /\ lastOp' = "applySortAndFilter"
  /\ UNCHANGED << videos, searchScore, currentSort, folders, searchInput,
                  debounceTimer >>

\* the touchend listener of folderSelect: the dropdown is touched and keeps
\* its value, which the timer copies into currentFolder 100 ms later
FolderTouch ==
  /\ UserEvent
  /\ currentFolder' = folderSelect
  /\ filteredVideos' = ApplySortAndFilter(videos, searchInput, currentFolder',
                                          currentSort)
  /\ grid' = RenderVideos(filteredVideos', videos)
  /\ lastOp' = "applySortAndFilter"
  /\ UNCHANGED << videos, searchScore, currentSort, folders, searchInput,
                  folderSelect, debounceTimer >>

\* a clearAllFilters that resets the controls and not this.currentFolder
ClearAllFiltersKeepsFolder ==
  /\ UserEvent
  /\ searchInput' = <<>>
  /\ folderSelect' = ALL
  /\ currentSort' = "newest"
  /\ currentFolder' = currentFolder
  /\ PerformSearch(<<>>, currentFolder, "newest")
  /\ UNCHANGED debounceTimer

\* clearAllFilters
ClearAllFilters ==
  /\ UserEvent
  /\ searchInput' = <<>>
  /\ folderSelect' = ALL
  /\ currentSort' = "newest"
  /\ currentFolder' = ALL
  /\ PerformSearch(<<>>, ALL, "newest")
  /\ UNCHANGED debounceTimer

(***************************************************************************)
(* The sort step on its own: videos.sort(comparator) of applySortAndFilter, *)
(* and data.videos.sort(...) of loadVideos under "newest".                  *)
(***************************************************************************)
\* the record lists handed to sort: up to MaxSortLen records, in any order
SortInputs ==
  UNION { { d \in [1..n -> RecordIds] : \A i, j \in 1..n : i # j => d[i] # d[j] }
          : n \in 0..MaxSortLen }

\* no array has been handed over
InitSort ==
  /\ sortInput = <<>>
  /\ sortOrder = "newest"
  /\ sortOutput = <<>>

\* any array and any sort order are handed over
InitSortInputs ==
  /\ sortInput \in SortInputs
  /\ sortOrder \in SortOptions
  /\ sortOutput = <<>>

\* the switch on the sort order and the call of sort
SortStep ==
  /\ sortOutput' \in SortOutcomes(sortInput, SortComparator(sortOrder))
  /\ UNCHANGED << sortInput, sortOrder >>
  /\ UNCHANGED << catalogVars, uploadVars, playerVars, urlVars, suggestVars, thumbVars, imageVars >>

(***************************************************************************)
(* The strings of the upload and playback pages: URLs, titles and the      *)
(* other form values are strings, read a character at a time.              *)
(***************************************************************************)
\* the character of s at position i
CharAt(s, i) == SubSeq(s, i, i)

\* String.prototype.startsWith
StartsWith(s, prefix) == Len(s) >= Len(prefix) /\ SubSeq(s, 1, Len(prefix)) = prefix

\* s from position i on
From(s, i) == SubSeq(s, i, Len(s))

UpperCaseLetters == "ABCDEFGHIJKLMNOPQRSTUVWXYZ"
LowerCaseLetters == "abcdefghijklmnopqrstuvwxyz"
Digits == "0123456789"

\* the characters of a string, as a set
CharsOf(s) == { CharAt(s, i) : i \in 1..Len(s) }

\* the lower-case letter of every upper-case letter
LowerCaseOf ==
  [c \in CharsOf(UpperCaseLetters) |->
     CharAt(LowerCaseLetters,
            CHOOSE i \in 1..Len(UpperCaseLetters) : CharAt(UpperCaseLetters, i) = c)]

\* String.prototype.toLowerCase, on a string
RECURSIVE lowerCase(_)
lowerCase(s) ==
  IF s = "" THEN ""
  ELSE LET c == CharAt(s, 1)
       IN  (IF c \in DOMAIN LowerCaseOf THEN LowerCaseOf[c] ELSE c)
             \o lowerCase(From(s, 2))

\* String.prototype.trim, on a string
RECURSIVE trimString(_)
trimString(s) ==
  IF s # "" /\ CharAt(s, 1) = " " THEN trimString(From(s, 2))
  ELSE IF s # "" /\ CharAt(s, Len(s)) = " " THEN trimString(SubSeq(s, 1, Len(s) - 1))
  ELSE s

\* the string of n copies of the character c
RECURSIVE Repeat(_, _)
Repeat(c, n) ==
  IF n = 0 THEN ""
  ELSE IF n % 2 = 0 THEN LET half == Repeat(c, n \div 2) IN half \o half
  ELSE c \o Repeat(c, n - 1)

\* the value null
Null == "<null>"

\* the character class [a-zA-Z0-9_-]
IdChars == CharsOf(UpperCaseLetters \o LowerCaseLetters \o Digits \o "_-")

IsIdChar(c) == c \in IdChars

\* the longest run of [a-zA-Z0-9_-] characters of s that starts at position i
RECURSIVE IdRun(_, _)
IdRun(s, i) ==
  IF i <= Len(s) /\ IsIdChar(CharAt(s, i)) THEN CharAt(s, i) \o IdRun(s, i + 1) ELSE ""

\* the positions of s where marker occurs followed by a [a-zA-Z0-9_-] character
MarkerPositions(s, marker) ==
  { i \in 1..(Len(s) - Len(marker)) :
      /\ SubSeq(s, i, i + Len(marker) - 1) = marker
      /\ IsIdChar(CharAt(s, i + Len(marker))) }

Min(S) == CHOOSE x \in S : \A y \in S : x <= y
Max(S) == CHOOSE x \in S : \A y \in S : x >= y

(***************************************************************************)
(* new URL(url): whether the parser accepts the string without a base.     *)
(* It needs a scheme; under http and https it needs a host of letters,     *)
(* digits, dots and hyphens, with an optional port, before the path.       *)
(***************************************************************************)
\* the position of the colon that ends the scheme, 0 without a scheme
SchemeChars == CharsOf(UpperCaseLetters \o LowerCaseLetters \o Digits \o "+-.")

HostChars == CharsOf(UpperCaseLetters \o LowerCaseLetters \o Digits \o ".-")

SchemeEnd(url) ==
  LET colons == { i \in 2..Len(url) :
                    /\ CharAt(url, i) = ":"
                    /\ \A j \in 1..(i - 1) : CharAt(url, j) \in SchemeChars }
  IN  IF url # "" /\ CharAt(url, 1) \in CharsOf(UpperCaseLetters \o LowerCaseLetters)
         /\ colons # {}
      THEN Min(colons) ELSE 0

\* what follows the scheme and the slashes after it
RECURSIVE SkipSlashes(_)
SkipSlashes(rest) ==
  IF rest # "" /\ CharAt(rest, 1) \in { "/", "\\" } THEN SkipSlashes(From(rest, 2)) ELSE rest

\* the authority: up to the first of / ? #
Authority(rest) ==
  LET ends == { i \in 1..Len(rest) : CharAt(rest, i) \in { "/", "?", "#", "\\" } }
  IN  IF ends = {} THEN rest ELSE SubSeq(rest, 1, Min(ends) - 1)

\* a host, or a host and a port
IsHostAndPort(authority) ==
  LET colons == { i \in 1..Len(authority) : CharAt(authority, i) = ":" }
      host == IF colons = {} THEN authority ELSE SubSeq(authority, 1, Min(colons) - 1)
      port == IF colons = {} THEN "" ELSE From(authority, Min(colons) + 1)
  IN  /\ host # ""
      /\ \A i \in 1..Len(host) : CharAt(host, i) \in HostChars
      /\ \A i \in 1..Len(port) : CharAt(port, i) \in CharsOf(Digits)

ParsesAsUrl(url) ==
  LET colon == SchemeEnd(url)
      scheme == lowerCase(SubSeq(url, 1, colon - 1))
  IN  /\ colon > 0
      /\ scheme \in { "http", "https" }
           => IsHostAndPort(Authority(SkipSlashes(From(url, colon + 1))))

(***************************************************************************)
(* The URL functions of the upload page.                                   *)
(***************************************************************************)
\* url && url.includes("drive.google.com") && url.includes("/file/d/")
isValidGoogleDriveUrl(url) ==
  url # "" /\ includes(url, "drive.google.com") /\ includes(url, "/file/d/")

\* /^(https?:\/\/)?(www\.)?(youtube\.com|youtu\.be)\/.+/.test(url)
isValidYouTubeUrl(url) ==
  \E scheme \in { "", "http://", "https://" } :
    \E www \in { "", "www." } :
      \E host \in { "youtube.com", "youtu.be" } :
        LET prefix == scheme \o www \o host \o "/"
        IN  StartsWith(url, prefix) /\ Len(url) > Len(prefix)

videoExtensions == << ".mp4", ".webm", ".ogg", ".avi", ".mov", ".wmv", ".flv", ".mkv" >>

isValidDirectVideoUrl(url) ==
  /\ url # ""
  /\ ParsesAsUrl(url)
  /\ LET lower == lowerCase(url)
     IN  \E k \in 1..Len(videoExtensions) : includes(lower, videoExtensions[k])

imageExtensions == << ".jpg", ".jpeg", ".png", ".gif", ".webp", ".svg" >>

isValidImageUrl(url) ==
  \/ url = ""
  \/ /\ ParsesAsUrl(url)
     /\ \/ LET lower == lowerCase(url)
           IN  \E k \in 1..Len(imageExtensions) : includes(lower, imageExtensions[k])
        \/ includes(url, "thumbnail")

\* url.match(/\/file\/d\/([a-zA-Z0-9_-]+)/)
extractGoogleDriveFileId(url) ==
  LET at == MarkerPositions(url, "/file/d/")
  IN  IF at = {} THEN Null ELSE IdRun(url, Min(at) + Len("/file/d/"))

\* the first pattern alone
extractYouTubeVideoIdFirstPattern(url) ==
  LET markers == { "youtube.com/watch?v=", "youtu.be/", "youtube.com/embed/" }
      first == { << i, m >> \in (1..Len(url)) \X markers :
                   /\ i \in MarkerPositions(url, m)
                   /\ \A n \in markers : \A j \in MarkerPositions(url, n) : i <= j }
  IN  IF first # {}
      THEN LET hit == CHOOSE h \in first : TRUE
           IN  IdRun(url, hit[1] + Len(hit[2]))
      ELSE Null

\* the first of the two patterns that matches
extractYouTubeVideoId(url) ==
  LET markers == { "youtube.com/watch?v=", "youtu.be/", "youtube.com/embed/" }
      \* the leftmost place where one of the three markers and an id start
      first == { << i, m >> \in (1..Len(url)) \X markers :
                   /\ i \in MarkerPositions(url, m)
                   /\ \A n \in markers : \A j \in MarkerPositions(url, n) : i <= j }
      \* youtube.com/watch? and, anywhere after it, v= and an id: .* is greedy,
      \* so the last such v= is taken
      watch == { i \in 1..(Len(url) - Len("youtube.com/watch?") + 1) :
                   SubSeq(url, i, i + Len("youtube.com/watch?") - 1)
                     = "youtube.com/watch?" }
      params == IF watch = {} THEN {}
                ELSE { i \in MarkerPositions(url, "v=") :
                         i >= Min(watch) + Len("youtube.com/watch?") }
  IN  IF first # {}
      THEN LET hit == CHOOSE h \in first : TRUE
           IN  IdRun(url, hit[1] + Len(hit[2]))
      ELSE IF params # {} THEN IdRun(url, Max(params) + Len("v="))
      ELSE Null

\* validateDriveUrl: whether the URL is one of the three kinds
validateDriveUrl(url) ==
  /\ url # ""
  /\ \/ isValidGoogleDriveUrl(url)
     \/ isValidYouTubeUrl(url)
     \/ isValidDirectVideoUrl(url)

\* a conversion that leaves every YouTube URL as it is
convertToEmbedUrlDriveOnly(url) ==
  IF isValidGoogleDriveUrl(url) /\ extractGoogleDriveFileId(url) # Null
  THEN "https://drive.google.com/file/d/" \o extractGoogleDriveFileId(url) \o "/preview"
  ELSE url

convertToEmbedUrl(url) ==
  IF isValidGoogleDriveUrl(url)
  THEN IF extractGoogleDriveFileId(url) # Null
       THEN "https://drive.google.com/file/d/" \o extractGoogleDriveFileId(url) \o "/preview"
       ELSE url
  ELSE IF isValidYouTubeUrl(url)
  THEN IF extractYouTubeVideoId(url) # Null
       THEN "https://www.youtube.com/embed/" \o extractYouTubeVideoId(url)
       ELSE url
  ELSE url

(***************************************************************************)
(* The upload page.  The page has the elements the script looks up; the    *)
(* folder section is rebuilt by setupFolderSelection at the end of init.   *)
(***************************************************************************)
MinTitleLength == 3
MaxTitleLength == 100
MaxDescriptionLength == 500

\* the text controls that init finds in the form, with their input listeners
TextFields == { "driveUrl", "videoTitle", "videoDescription", "thumbnailUrl" }

\* what the user types into each of them
TypedValues(field) ==
  CASE field = "driveUrl" ->
         { "", "https://drive.google.com/file/d/1A2B3C/view",
           "https://drive.google.com/open?id=1A2B3C",
           " https://youtu.be/dQw4w9WgXcQ?t=4 ",
           "https://cdn.example.com/clip.MP4", "videos/clip.mp4",
           "https://example.com/watch" }
    [] field = "videoTitle" ->
         { "", "ab", " ab ", "abc", Repeat("t", MaxTitleLength),
           Repeat("t", MaxTitleLength + 1) }
    [] field = "videoDescription" ->
         { Repeat("d", MaxDescriptionLength), Repeat("d", MaxDescriptionLength + 1) }
    [] field = "thumbnailUrl" ->
         { "https://img.example.com/a.PNG", "https://img.example.com/thumbnail/1",
           "https://img.example.com/a", "img/a.png" }

\* the folders loadExistingFolders has found, the options of the folder select
existingFolders == { "General" }

NewFolderOption == "__new__"

NoDraft == [saved |-> FALSE]

\* the drafts an earlier visit may have left in localStorage
SavedDrafts ==
  { [saved |-> TRUE, driveUrl |-> u, title |-> t, description |-> "",
     thumbnailUrl |-> "", folder |-> f] :
      u \in { "", "https://drive.google.com/file/d/1A2B3C/view" },
      t \in { "", "abc" },
      f \in { "", "General", "Clips" } }

EmptyForm ==
  [driveUrl |-> "", videoTitle |-> "", videoDescription |-> "", thumbnailUrl |-> "",
   folderSelect |-> "", newFolderInput |-> ""]

getFormData(f) ==
  [saved |-> TRUE,
   driveUrl |-> trimString(f.driveUrl),
   title |-> trimString(f.videoTitle),
   description |-> trimString(f.videoDescription),
   thumbnailUrl |-> trimString(f.thumbnailUrl),
   folder |-> IF f.folderSelect = NewFolderOption THEN trimString(f.newFolderInput)
              ELSE f.folderSelect]

\* checks that, as the error message has it, want a title of less than
\* MaxTitleLength characters
FieldFailsTitleAtMax(field, data) ==
  CASE field = "driveUrl" -> data.driveUrl = "" \/ ~validateDriveUrl(data.driveUrl)
    [] field = "videoTitle" -> \/ data.title = ""
                               \/ Len(data.title) < MinTitleLength
                               \/ Len(data.title) >= MaxTitleLength
    [] field = "folderSelect" -> data.folder = ""
    [] field = "videoDescription" ->
         data.description # "" /\ Len(data.description) > MaxDescriptionLength
    [] field = "thumbnailUrl" ->
         data.thumbnailUrl # "" /\ ~isValidImageUrl(data.thumbnailUrl)

\* validateForm: whether it reports an error on the control
FieldFails(field, data) ==
  CASE field = "driveUrl" -> data.driveUrl = "" \/ ~validateDriveUrl(data.driveUrl)
    [] field = "videoTitle" -> \/ data.title = ""
                               \/ Len(data.title) < MinTitleLength
                               \/ Len(data.title) > MaxTitleLength
    [] field = "folderSelect" -> data.folder = ""
    [] field = "videoDescription" ->
         data.description # "" /\ Len(data.description) > MaxDescriptionLength
    [] field = "thumbnailUrl" ->
         data.thumbnailUrl # "" /\ ~isValidImageUrl(data.thumbnailUrl)

\* validateForm: the controls it marks with an error
FormErrors(data) ==
  { field \in TextFields \cup { "folderSelect" } : FieldFails(field, data) }

\* validateForm: its result
validateForm(data) == FormErrors(data) = {}

\* a check that lets every form through
SubmissionNeverBlocked(data) == FALSE

\* if (!this.validateForm(formData)) return
SubmissionBlocked(data) == ~validateForm(data)

\* showUploadInstructions: the video record of the modal
VideoRecord(data) ==
  [title |-> data.title,
   description |-> data.description,
   thumbnail |-> IF data.thumbnailUrl # "" THEN data.thumbnailUrl
                 ELSE "assets/images/placeholder.png",
   videoUrl |-> convertToEmbedUrl(data.driveUrl),
   driveUrl |-> convertToEmbedUrl(data.driveUrl),
   folder |-> data.folder]

\* autoGenerateYouTubeThumbnail: the value of the thumbnail control after it
autoGenerateYouTubeThumbnail(url, thumbnail) ==
  IF thumbnail = "" /\ isValidYouTubeUrl(url) /\ extractYouTubeVideoId(url) # Null
  THEN "https://img.youtube.com/vi/" \o extractYouTubeVideoId(url) \o "/maxresdefault.jpg"
  ELSE thumbnail

\* loadDraft: the controls filled from the draft
loadDraft(d) ==
  IF ~d.saved THEN EmptyForm
  ELSE [driveUrl |-> d.driveUrl, videoTitle |-> d.title,
        videoDescription |-> d.description, thumbnailUrl |-> d.thumbnailUrl,
        folderSelect |-> IF d.folder \in existingFolders THEN d.folder ELSE "",
        newFolderInput |-> ""]

InitUpload ==
  /\ form = EmptyForm
  /\ isSubmitting = FALSE
  /\ draft = NoDraft
  /\ modals = <<>>
  /\ notification = "none"
  /\ fieldErrors = {}
  /\ uploadPc = "init"
  /\ nTyped = 0
  /\ nSubmits = 0
  /\ lastSubmit = "none"

\* the page opens with whatever draft an earlier visit has left
InitUploadPage ==
  /\ form = EmptyForm
  /\ isSubmitting = FALSE
  /\ draft \in SavedDrafts \cup { NoDraft }
  /\ modals = <<>>
  /\ notification = "none"
  /\ fieldErrors = {}
  /\ uploadPc = "init"
  /\ nTyped = 0
  /\ nSubmits = 0
  /\ lastSubmit = "none"

\* init after loadExistingFolders: the listeners are attached, the draft is
\* loaded into the form, and setupFolderSelection builds a new folder select
UploaderInit ==
  /\ uploadPc = "init"
  /\ uploadPc' = "idle"
  /\ form' = [loadDraft(draft) EXCEPT !.folderSelect = "", !.newFolderInput = ""]
  /\ notification' = IF draft.saved THEN "Draft restored" ELSE notification
  /\ UNCHANGED << isSubmitting, draft, modals, fieldErrors, nTyped, nSubmits,
                  lastSubmit >>
  /\ UNCHANGED << catalogVars, sortVars, playerVars, urlVars, suggestVars, thumbVars, imageVars >>

\* the input listeners of a text control: on driveUrl the URL is validated and
\* a YouTube thumbnail filled in; then the draft is saved and the control's
\* error cleared
TypeField(field, value) ==
  /\ uploadPc = "idle"
  /\ nTyped < MaxTyped
  /\ nTyped' = nTyped + 1
  /\ form' = IF field = "driveUrl"
             THEN [form EXCEPT !.driveUrl = value,
                               !.thumbnailUrl = autoGenerateYouTubeThumbnail(value, @)]
             ELSE [form EXCEPT ![field] = value]
  /\ draft' = getFormData(form')
  /\ fieldErrors' = fieldErrors \ { field }
  /\ UNCHANGED << isSubmitting, modals, notification, uploadPc, nSubmits, lastSubmit >>
  /\ UNCHANGED << catalogVars, sortVars, playerVars, urlVars, suggestVars, thumbVars, imageVars >>

\* the change listener of the new folder select
SelectFolder(value) ==
  /\ uploadPc = "idle"
  /\ value # form.folderSelect
  /\ form' = [form EXCEPT !.folderSelect = value,
                          !.newFolderInput = IF value = NewFolderOption THEN @ ELSE ""]
  /\ UNCHANGED << isSubmitting, draft, modals, notification, fieldErrors, uploadPc,
                  nTyped, nSubmits, lastSubmit >>
  /\ UNCHANGED << catalogVars, sortVars, playerVars, urlVars, suggestVars, thumbVars, imageVars >>

\* the user types into the new folder input, which has no listener
TypeNewFolder(value) ==
  /\ uploadPc = "idle"
  /\ form.folderSelect = NewFolderOption
  /\ value # form.newFolderInput
  /\ form' = [form EXCEPT !.newFolderInput = value]
  /\ UNCHANGED << isSubmitting, draft, modals, notification, fieldErrors, uploadPc,
                  nTyped, nSubmits, lastSubmit >>
  /\ UNCHANGED << catalogVars, sortVars, playerVars, urlVars, suggestVars, thumbVars, imageVars >>

\* whether the promise of showUploadInstructions resolves or rejects
SubmitOutcomes == { "resolved", "threw" }

\* handleSubmit up to its await: showUploadInstructions has no await of its
\* own and appends the modal, or throws, before handleSubmit is suspended
HandleSubmit(outcome) ==
  /\ uploadPc = "idle"
  /\ nSubmits < MaxSubmits
  /\ nSubmits' = nSubmits + 1
  /\ IF isSubmitting
     THEN /\ lastSubmit' = "ignored"
          /\ UNCHANGED << form, isSubmitting, draft, modals, notification,
                          fieldErrors, uploadPc >>
     ELSE IF SubmissionBlocked(getFormData(form))
     THEN /\ lastSubmit' = "rejected"
          /\ fieldErrors' = fieldErrors \cup FormErrors(getFormData(form))
          /\ notification' = "Please fix the following errors"
          /\ UNCHANGED << form, isSubmitting, draft, modals, uploadPc >>
     ELSE /\ lastSubmit' = "accepted"
          /\ isSubmitting' = TRUE
          /\ IF outcome = "resolved"
             THEN /\ modals' = Append(modals, VideoRecord(getFormData(form)))
                  /\ uploadPc' = "awaiting"
             ELSE /\ modals' = modals
                  /\ uploadPc' = "awaitingRejected"
          /\ UNCHANGED << form, draft, notification, fieldErrors >>
  /\ UNCHANGED nTyped
  /\ UNCHANGED << catalogVars, sortVars, playerVars, urlVars, suggestVars, thumbVars, imageVars >>

\* a continuation whose reset of isSubmitting is not in a finally block
SubmitContinuationNoFinally ==
  /\ uploadPc \in { "awaiting", "awaitingRejected" }
  /\ uploadPc' = "idle"
  /\ IF uploadPc = "awaiting"
     THEN /\ draft' = NoDraft
          /\ isSubmitting' = FALSE
          /\ UNCHANGED notification
     ELSE /\ notification' = "Failed to process upload. Please try again."
          /\ UNCHANGED << draft, isSubmitting >>
  /\ UNCHANGED << form, modals, fieldErrors, nTyped, nSubmits, lastSubmit >>
  /\ UNCHANGED << catalogVars, sortVars, playerVars, urlVars, suggestVars, thumbVars, imageVars >>

\* handleSubmit after its await: clearDraft or the catch block, then the
\* finally block
SubmitContinuation ==
  /\ uploadPc \in { "awaiting", "awaitingRejected" }
  /\ uploadPc' = "idle"
  /\ IF uploadPc = "awaiting"
     THEN /\ draft' = NoDraft
          /\ UNCHANGED notification
     ELSE /\ notification' = "Failed to process upload. Please try again."
          /\ UNCHANGED draft
  /\ isSubmitting' = FALSE
  /\ UNCHANGED << form, modals, fieldErrors, nTyped, nSubmits, lastSubmit >>
  /\ UNCHANGED << catalogVars, sortVars, playerVars, urlVars, suggestVars, thumbVars, imageVars >>

(***************************************************************************)
(* The playback page.                                                      *)
(***************************************************************************)
\* the records the document of the playback page may carry
PlayerVideoIds == { "a", "b", "c", "d", "e" }

PlayerVideo(id) ==
  CASE id = "a" -> [id |-> "a", driveUrl |-> "",
                    videoUrl |-> "https://drive.google.com/file/d/1A2B3C/view"]
    [] id = "b" -> [id |-> "b", driveUrl |-> "",
                    videoUrl |-> "https://www.youtube.com/embed/dQw4w9WgXcQ"]
    [] id = "c" -> [id |-> "c", driveUrl |-> "",
                    videoUrl |-> "https://cdn.example.com/clip.MP4"]
    [] id = "d" -> [id |-> "d", driveUrl |-> "",
                    videoUrl |-> "https://example.com/watch"]
    [] id = "e" -> [id |-> "e", videoUrl |-> "",
                    driveUrl |-> "https://drive.google.com/open?id=1A2B3C"]

\* the documents: up to MaxPlayerVideos records with unique ids, in any order
PlayerDocuments ==
  UNION { { d \in [1..n -> PlayerVideoIds] : \A i, j \in 1..n : i # j => d[i] # d[j] }
          : n \in 0..MaxPlayerVideos }

\* a body that response.json() rejects, or that has no videos array
PlayerMalformed == << "<malformed>" >>

\* the id parameter: absent, the id of a record of the pool, or another id
RequestedIds == PlayerVideoIds \cup { Null, "", "z" }

\* url && url.includes("drive.google.com")
isGoogleDriveUrl(url) == url # "" /\ includes(url, "drive.google.com")

\* url && (url.includes("youtube.com") || url.includes("youtu.be"))
isYouTubeUrl(url) ==
  url # "" /\ (includes(url, "youtube.com") \/ includes(url, "youtu.be"))

isDirectVideoUrl(url) ==
  /\ url # ""
  /\ LET lower == lowerCase(url)
     IN  \E k \in 1..Len(videoExtensions) : includes(lower, videoExtensions[k])

convertGoogleDriveUrl(url) ==
  LET at == MarkerPositions(url, "/file/d/")
  IN  IF at = {} THEN url
      ELSE "https://drive.google.com/file/d/"
             \o IdRun(url, Min(at) + Len("/file/d/")) \o "/preview"

\* renderVideoPlayer: the element it puts into the container
renderVideoPlayer(video) ==
  LET videoUrl == IF video.videoUrl # "" THEN video.videoUrl ELSE video.driveUrl
  IN  IF isGoogleDriveUrl(videoUrl)
      THEN [kind |-> "iframe", src |-> convertGoogleDriveUrl(videoUrl), message |-> ""]
      ELSE IF isYouTubeUrl(videoUrl)
      THEN [kind |-> "iframe", src |-> videoUrl, message |-> ""]
      ELSE IF isDirectVideoUrl(videoUrl)
      THEN [kind |-> "video", src |-> videoUrl, message |-> ""]
      ELSE [kind |-> "unsupported", src |-> videoUrl, message |-> ""]

\* an error block that always carries the message of the catch block
PlayerErrorGeneric(message) ==
  [kind |-> "error", src |-> "", message |-> "Failed to load video"]

\* showError: the error block with its message
PlayerError(message) == [kind |-> "error", src |-> "", message |-> message]

\* no document has been read yet
NoDocument == << Null >>

\* data.videos.find((video) => video.id === this.videoId)
FindVideo(doc, id) ==
  LET at == { i \in 1..Len(doc) : doc[i] = id }
  IN  IF at = {} THEN Null ELSE doc[Min(at)]

InitPlayer ==
  /\ videoId = Null
  /\ currentVideo = Null
  /\ playerPc = "closed"
  /\ playerDoc = NoDocument
  /\ playerView = [kind |-> "empty", src |-> "", message |-> ""]

\* the page is opened with any id parameter, or none
InitPlayerPage ==
  /\ videoId \in RequestedIds
  /\ currentVideo = Null
  /\ playerPc = "start"
  /\ playerDoc = NoDocument
  /\ playerView = [kind |-> "empty", src |-> "", message |-> ""]

\* init up to the fetch of loadVideo
PlayerStart ==
  /\ playerPc = "start"
  /\ IF videoId = Null \/ videoId = ""
     THEN /\ playerView' = PlayerError("No video ID provided")
          /\ playerPc' = "done"
     ELSE /\ playerPc' = "fetch"
          /\ UNCHANGED playerView
  /\ UNCHANGED << videoId, currentVideo, playerDoc >>
  /\ UNCHANGED << catalogVars, sortVars, uploadVars, urlVars, suggestVars, thumbVars, imageVars >>

\* the response of fetch arrives, or fetch rejects
PlayerResponse(outcome) ==
  /\ playerPc = "fetch"
  /\ IF outcome = "ok"
     THEN /\ playerPc' = "json"
          /\ UNCHANGED playerView
     ELSE /\ playerPc' = "done"
          /\ playerView' = PlayerError("Failed to load video")
  /\ UNCHANGED << videoId, currentVideo, playerDoc >>
  /\ UNCHANGED << catalogVars, sortVars, uploadVars, urlVars, suggestVars, thumbVars, imageVars >>

\* response.json() settles: with the document, or rejecting
PlayerJson(body) ==
  /\ playerPc = "json"
  /\ playerPc' = "done"
  /\ IF body = PlayerMalformed
     THEN /\ playerView' = PlayerError("Failed to load video")
          /\ UNCHANGED << currentVideo, playerDoc >>
     ELSE /\ playerDoc' = body
          /\ currentVideo' = FindVideo(body, videoId)
          /\ playerView' = IF currentVideo' = Null THEN PlayerError("Video not found")
                           ELSE renderVideoPlayer(PlayerVideo(currentVideo'))
  /\ UNCHANGED videoId
  /\ UNCHANGED << catalogVars, sortVars, uploadVars, urlVars, suggestVars, thumbVars, imageVars >>

(***************************************************************************)
(* The URL functions of the two pages, applied to one URL.                 *)
(***************************************************************************)
Urls ==
  { "",
    "https://drive.google.com/file/d/1A2B3C/view",
    "https://drive.google.com/file/d/1A2B3C/clip.mp4",
    "https://drive.google.com/open?id=1A2B3C",
    "https://drive.google.com/file/d//view",
    "https://youtu.be/dQw4w9WgXcQ",
    "https://youtu.be/dQw4w9WgXcQ?t=42",
    "https://youtu.be/",
    "https://youtu.be/abc?from=drive.google.com/file/d/XYZ/view",
    "https://www.youtube.com/watch?v=dQw4w9WgXcQ&t=10s",
    "https://www.youtube.com/watch?feature=share&v=abc_1",
    "https://www.youtube.com/watch?feature=share&v=abc_1&rv=xyz",
    "https://www.youtube.com/embed/a-b_c?rel=0",
    "http://youtube.com/watch?v=clip.mp4",
    "youtube.com/playlist?list=PL1",
    "https://m.youtube.com/watch?v=abc",
    "https://example.com/?ref=youtube.com",
    "https://example.com/embed/abc123",
    "https://example.com/watch?v=abc123",
    "https://cdn.example.com/clip.MP4",
    "https://cdn.example.com/clip.mp4.html",
    "https://drive.google.com/uc?id=1A2B3C&name=clip.mp4",
    "https://media.example.com/youtube.com/clip.mp4",
    "clip.webm",
    "https://example.com/watch" }

\* the branch validateDriveUrl takes
UploadClassify(u) ==
  IF u = "" THEN "Unknown"
  ELSE IF isValidGoogleDriveUrl(u) THEN "GoogleDrive"
  ELSE IF isValidYouTubeUrl(u) THEN "YouTube"
  ELSE IF isValidDirectVideoUrl(u) THEN "DirectVideo"
  ELSE "Unknown"

\* the branch renderVideoPlayer takes
PlaybackClassify(u) ==
  IF isGoogleDriveUrl(u) THEN "GoogleDrive"
  ELSE IF isYouTubeUrl(u) THEN "YouTube"
  ELSE IF isDirectVideoUrl(u) THEN "DirectVideo"
  ELSE "Unknown"

InitUrl ==
  /\ givenUrl = ""
  /\ uploadClass = "closed"
  /\ playbackClass = "closed"
  /\ embedUrl = "closed"
  /\ playbackSrc = "closed"
  /\ youTubeId = "closed"
  /\ routedClass = "closed"

\* any URL, no function applied yet
InitUrlInputs ==
  /\ givenUrl \in Urls
  /\ uploadClass = Null
  /\ playbackClass = Null
  /\ embedUrl = Null
  /\ playbackSrc = Null
  /\ youTubeId = "<unset>"
  /\ routedClass = Null

ClassifyOnUpload ==
  /\ uploadClass = Null
  /\ uploadClass' = UploadClassify(givenUrl)
  /\ UNCHANGED << givenUrl, playbackClass, embedUrl, playbackSrc, youTubeId, routedClass >>
  /\ UNCHANGED << catalogVars, sortVars, uploadVars, playerVars, suggestVars, thumbVars, imageVars >>

ClassifyOnPlayback ==
  /\ playbackClass = Null
  /\ playbackClass' = PlaybackClassify(givenUrl)
  /\ UNCHANGED << givenUrl, uploadClass, embedUrl, playbackSrc, youTubeId, routedClass >>
  /\ UNCHANGED << catalogVars, sortVars, uploadVars, playerVars, suggestVars, thumbVars, imageVars >>

ConvertOnUpload ==
  /\ embedUrl = Null
  /\ embedUrl' = convertToEmbedUrl(givenUrl)
  /\ UNCHANGED << givenUrl, uploadClass, playbackClass, playbackSrc, youTubeId, routedClass >>
  /\ UNCHANGED << catalogVars, sortVars, uploadVars, playerVars, suggestVars, thumbVars, imageVars >>

ConvertOnPlayback ==
  /\ playbackSrc = Null
  /\ playbackSrc' = convertGoogleDriveUrl(givenUrl)
  /\ UNCHANGED << givenUrl, uploadClass, playbackClass, embedUrl, youTubeId, routedClass >>
  /\ UNCHANGED << catalogVars, sortVars, uploadVars, playerVars, suggestVars, thumbVars, imageVars >>

ExtractYouTubeId ==
  /\ youTubeId = "<unset>"
  /\ routedClass = Null
  /\ youTubeId' = extractYouTubeVideoId(givenUrl)
  /\ UNCHANGED << givenUrl, uploadClass, playbackClass, embedUrl, playbackSrc,
                  routedClass >>
  /\ UNCHANGED << catalogVars, sortVars, uploadVars, playerVars, suggestVars, thumbVars, imageVars >>

\* a record whose videoUrl is the converted URL is opened on the playback page
RouteEmitted ==
  /\ embedUrl # Null
  /\ routedClass = Null
  /\ routedClass' = PlaybackClassify(embedUrl)
  /\ UNCHANGED << givenUrl, uploadClass, playbackClass, embedUrl, playbackSrc,
                  youTubeId >>
  /\ UNCHANGED << catalogVars, sortVars, uploadVars, playerVars, suggestVars, thumbVars, imageVars >>

(***************************************************************************)
(* The search suggestions of the catalog page.                             *)
(***************************************************************************)
MaxSuggestions == 10
MinTitleWord == 2
MinDescriptionWord == 3

SuggestVideoIds == { "s1", "s2", "s3", "s4", "s5" }

SuggestVideo(id) ==
  CASE id = "s1" -> [title |-> "Big Cat Tricks", folder |-> "Pets",
                     description |-> "my cat does tricks at home"]
    [] id = "s2" -> [title |-> "CAT vs Dog", folder |-> "Pets",
                     description |-> "the loud barking"]
    [] id = "s3" -> [title |-> "Road  Trip to Oslo", folder |-> "Travel 2024",
                     description |-> ""]
    [] id = "s4" -> [title |-> "Up", folder |-> "",
                     description |-> "hot air"]
    [] id = "s5" -> [title |-> "Dog Park", folder |-> "pets",
                     description |-> "dogs play fetch"]

\* the lists of up to MaxSuggestVideos records, each record at most once
SuggestInputs ==
  UNION { { d \in [1..n -> SuggestVideoIds] : \A i, j \in 1..n : i # j => d[i] # d[j] }
          : n \in 0..MaxSuggestVideos }

\* s.split(" ")
RECURSIVE split(_)
split(s) ==
  LET spaces == { i \in 1..Len(s) : CharAt(s, i) = " " }
  IN  IF spaces = {} THEN << s >>
      ELSE << SubSeq(s, 1, Min(spaces) - 1) >>
             \o split(SubSeq(s, Min(spaces) + 1, Len(s)))

\* the words of a list that are longer than min, in lower case
RECURSIVE LongWords(_, _)
LongWords(words, min) ==
  IF words = << >> THEN << >>
  ELSE (IF Len(Head(words)) > min THEN << lowerCase(Head(words)) >> ELSE << >>)
         \o LongWords(Tail(words), min)

\* what one pass of the forEach body adds, in the order it adds it
VideoTokens(video) ==
  LongWords(split(video.title), MinTitleWord)
    \o LongWords(split(video.description), MinDescriptionWord)
    \o (IF video.folder # "" THEN << lowerCase(video.folder) >> ELSE << >>)

\* an add that does not look whether the value is there already
SetAddAlways(list, value) == Append(list, value)

\* Set.prototype.add: a Set keeps the order of first insertion
SetAdd(list, value) ==
  IF \E i \in 1..Len(list) : list[i] = value THEN list ELSE Append(list, value)

RECURSIVE SetAddAll(_, _)
SetAddAll(list, values) ==
  IF values = << >> THEN list
  ELSE SetAddAll(SetAdd(list, Head(values)), Tail(values))

RECURSIVE SuggestionSet(_, _)
SuggestionSet(list, records) ==
  IF records = << >> THEN list
  ELSE SuggestionSet(SetAddAll(list, VideoTokens(SuggestVideo(Head(records)))),
                     Tail(records))

\* Array.from(suggestions).slice(0, 10)
generateSearchSuggestions(records) ==
  LET all == SuggestionSet(<< >>, records)
  IN  SubSeq(all, 1, IF Len(all) < MaxSuggestions THEN Len(all) ELSE MaxSuggestions)

\* generateSearchSuggestions has not been called
NoSuggestions == << "<unset>" >>

InitSuggest ==
  /\ suggestVideos = << >>
  /\ searchSuggestions = NoSuggestions

\* any list of records, no suggestions generated from it yet
InitSuggestInputs ==
  /\ suggestVideos \in SuggestInputs
  /\ searchSuggestions = NoSuggestions

\* a first or a repeated call of generateSearchSuggestions
GenerateSearchSuggestions ==
  /\ searchSuggestions' = generateSearchSuggestions(suggestVideos)
  /\ UNCHANGED suggestVideos
  /\ UNCHANGED << catalogVars, sortVars, uploadVars, playerVars, urlVars, thumbVars, imageVars >>

(***************************************************************************)
(* Thumbnail auto-generation on the upload page: the input, change and     *)
(* blur listeners of the URL field and the completion of processDriveUrl.  *)
(***************************************************************************)
UrlFieldValues ==
  { "", "https://drive.google.com/file/d/1A2B3C/view",
    "https://drive.google.com/file/d/9Z/view", "https://youtu.be/dQw4w9WgXcQ" }

\* what the user may type into the thumbnail field
ThumbnailTyped == { "", "https://img.example.com/t.png" }

DriveThumbnail(fileId) ==
  "https://drive.google.com/thumbnail?id=" \o fileId \o "&sz=w400-h300"

autoGenerateThumbnail(driveUrl, thumbnail) ==
  IF ~isValidGoogleDriveUrl(driveUrl) \/ thumbnail # "" THEN thumbnail
  ELSE IF extractGoogleDriveFileId(driveUrl) # Null
  THEN DriveThumbnail(extractGoogleDriveFileId(driveUrl))
  ELSE thumbnail

InitThumb ==
  /\ urlField = ""
  /\ thumbnailField = ""
  /\ processing = << >>
  /\ nUrlEvents = 0
  /\ lastThumbOp = "closed"

\* the form as init leaves it, with or without a thumbnail from a draft
InitThumbFields ==
  /\ urlField = ""
  /\ thumbnailField \in ThumbnailTyped
  /\ processing = << >>
  /\ nUrlEvents = 0
  /\ lastThumbOp = "init"

UrlEvent ==
  /\ nUrlEvents < MaxUrlEvents
  /\ nUrlEvents' = nUrlEvents + 1
  /\ UNCHANGED << catalogVars, sortVars, uploadVars, playerVars, urlVars, suggestVars, imageVars >>

\* the input listener of the URL field
UrlInput(value) ==
  /\ UrlEvent
  /\ value # urlField
  /\ urlField' = value
  /\ thumbnailField' = autoGenerateYouTubeThumbnail(value, thumbnailField)
  /\ lastThumbOp' = "input"
  /\ UNCHANGED processing

\* the change listener of the URL field
UrlChange ==
  /\ UrlEvent
  /\ thumbnailField' = autoGenerateYouTubeThumbnail(
                         urlField, autoGenerateThumbnail(urlField, thumbnailField))
  /\ lastThumbOp' = "change"
  /\ UNCHANGED << urlField, processing >>

\* the blur listener of the URL field: processDriveUrl up to its await
UrlBlur ==
  /\ UrlEvent
  /\ processing' = IF isValidGoogleDriveUrl(urlField)
                      /\ extractGoogleDriveFileId(urlField) # Null
                   THEN Append(processing, extractGoogleDriveFileId(urlField))
                   ELSE processing
  /\ lastThumbOp' = "blur"
  /\ UNCHANGED << urlField, thumbnailField >>

\* the user types into the thumbnail field
ThumbnailInput(value) ==
  /\ UrlEvent
  /\ value # thumbnailField
  /\ thumbnailField' = value
  /\ lastThumbOp' = "user"
  /\ UNCHANGED << urlField, processing >>

\* a completion that looked at the thumbnail field before the await only
ProcessDriveUrlDoneUnchecked ==
  /\ processing # << >>
  /\ processing' = Tail(processing)
  /\ thumbnailField' = DriveThumbnail(Head(processing))
  /\ lastThumbOp' = "process"
  /\ UNCHANGED << urlField, nUrlEvents >>
  /\ UNCHANGED << catalogVars, sortVars, uploadVars, playerVars, urlVars, suggestVars, imageVars >>

\* the timer of the oldest waiting processDriveUrl fires: the rest of the call
ProcessDriveUrlDone ==
  /\ processing # << >>
  /\ processing' = Tail(processing)
  /\ thumbnailField' = IF thumbnailField = "" THEN DriveThumbnail(Head(processing))
                       ELSE thumbnailField
  /\ lastThumbOp' = "process"
  /\ UNCHANGED << urlField, nUrlEvents >>
  /\ UNCHANGED << catalogVars, sortVars, uploadVars, playerVars, urlVars, suggestVars, imageVars >>

(***************************************************************************)
(* handleThumbnailError and the two places that call it: the onerror       *)
(* attribute of the image and the test image of the lazy loader.           *)
(***************************************************************************)
Placeholder == "assets/images/placeholder.png"
OriginalThumbnail == "https://img.example.com/thumb.jpg"

DriveThumbnailFallback(fileId) ==
  "https://drive.google.com/thumbnail?id=" \o fileId \o "&sz=w400-h300"

Lh3Fallback(fileId) == "https://lh3.googleusercontent.com/d/" \o fileId \o "=w400-h300"

\* driveUrl of the record of the card: Drive with a file id, Drive without
\* one, YouTube, empty, and Null where find returns no record
ImageDriveUrls ==
  { "https://drive.google.com/file/d/1A2B3C/preview",
    "https://drive.google.com/file/d/x-Y_9/view?usp=sharing",
    "https://drive.google.com/open?id=1A2B3C",
    "https://drive.google.com/uc?export=download&id=1A2B3C",
    "https://www.youtube.com/embed/dQw4w9WgXcQ",
    "https://media.example.com/d/clip.mp4",
    "", Null }

\* an image of the first rendering is watched by the lazy loader, one of a
\* later rendering is not
LazyStages == { "watched", "unwatched" }

\* video.driveUrl.match(/\/d\/([a-zA-Z0-9-_]+)/), for a Drive record
ImageFileId(driveUrl) ==
  IF driveUrl \in { Null, "" } \/ ~includes(driveUrl, "drive.google.com") THEN Null
  ELSE LET at == MarkerPositions(driveUrl, "/d/")
       IN  IF at = {} THEN Null ELSE IdRun(driveUrl, Min(at) + Len("/d/"))

\* the final fallback
ToPlaceholder(img) == [img EXCEPT !.src = Placeholder, !.onerror = FALSE]

\* a handler whose second step does not record that it ran
handleThumbnailErrorRepeats(img, driveUrl) ==
  LET fileId == ImageFileId(driveUrl)
  IN  IF img.fallbackAttempted = ""
      THEN IF fileId # Null
           THEN [img EXCEPT !.fallbackAttempted = "1",
                            !.src = DriveThumbnailFallback(fileId)]
           ELSE ToPlaceholder([img EXCEPT !.fallbackAttempted = "1"])
      ELSE IF img.fallbackAttempted = "1"
      THEN IF fileId # Null
           THEN [img EXCEPT !.src = Lh3Fallback(fileId)]
           ELSE ToPlaceholder(img)
      ELSE ToPlaceholder(img)

handleThumbnailError(img, driveUrl) ==
  LET fileId == ImageFileId(driveUrl)
  IN  IF img.fallbackAttempted = ""
      THEN IF fileId # Null
           THEN [img EXCEPT !.fallbackAttempted = "1",
                            !.src = DriveThumbnailFallback(fileId)]
           ELSE ToPlaceholder([img EXCEPT !.fallbackAttempted = "1"])
      ELSE IF img.fallbackAttempted = "1"
      THEN IF fileId # Null
           THEN [img EXCEPT !.fallbackAttempted = "2", !.src = Lh3Fallback(fileId)]
           ELSE ToPlaceholder([img EXCEPT !.fallbackAttempted = "2"])
      ELSE ToPlaceholder(img)

\* the image as renderVideos writes it
RenderedImage == [src |-> OriginalThumbnail, fallbackAttempted |-> "", onerror |-> TRUE]

InitImage ==
  /\ image = [src |-> "", fallbackAttempted |-> "", onerror |-> FALSE]
  /\ imageDriveUrl = Null
  /\ lazy = [stage |-> "closed", src |-> ""]
  /\ imageWrites = << >>

\* a card as renderVideos writes it, for any record
InitImageRendered ==
  /\ image = RenderedImage
  /\ imageDriveUrl \in ImageDriveUrls
  /\ lazy \in [stage : LazyStages, src : { "" }]
  /\ imageWrites = << >>

\* one call of handleThumbnailError
HandlerCall ==
  /\ Len(imageWrites) < MaxImageErrors
  /\ image' = handleThumbnailError(image, imageDriveUrl)
  /\ imageWrites' = Append(imageWrites, image'.src)
  /\ UNCHANGED imageDriveUrl
  /\ UNCHANGED << catalogVars, sortVars, uploadVars, playerVars, urlVars, suggestVars, thumbVars >>

\* the src of the image fails to load and its onerror attribute is still set
ImageLoadError ==
  /\ image.onerror
  /\ HandlerCall
  /\ UNCHANGED lazy

\* the image comes into view: the lazy loader loads the src the image has
\* now into a test image and stops watching
LazyObserve ==
  /\ lazy.stage = "watched"
  /\ lazy' = [stage |-> "loading", src |-> image.src]
  /\ UNCHANGED << image, imageDriveUrl, imageWrites >>
  /\ UNCHANGED << catalogVars, sortVars, uploadVars, playerVars, urlVars, suggestVars, thumbVars >>

\* the test image loads: the image takes its src
LazyLoaded ==
  /\ lazy.stage = "loading"
  /\ lazy' = [lazy EXCEPT !.stage = "done"]
  /\ image' = [image EXCEPT !.src = lazy.src]
  /\ UNCHANGED << imageDriveUrl, imageWrites >>
  /\ UNCHANGED << catalogVars, sortVars, uploadVars, playerVars, urlVars, suggestVars, thumbVars >>

\* the test image fails to load
LazyLoadError ==
  /\ lazy.stage = "loading"
  /\ lazy' = [lazy EXCEPT !.stage = "done"]
  /\ HandlerCall
Init == InitCatalog /\ InitSort /\ InitUpload /\ InitPlayer /\ InitUrl /\ InitSuggest /\ InitThumb /\ InitImage

Outcomes == { "ok", "http-error", "network-error" }
Bodies == Documents \cup { Malformed }

Load ==
  \E c \in { "init", "popstate" } :
    \/ \E outcome \in Outcomes : LoadResponse(c, outcome)
    \/ \E body \in Bodies : LoadJson(c, body)

Refresh ==
  \/ RefreshTick
  \/ \E outcome \in Outcomes : RefreshResponse(outcome)
  \/ \E body \in Bodies : RefreshJson(body)

Search ==
  \/ \E value \in SearchInputs : TypeInput(value)
  \/ DebounceFire
  \/ EscapeKey

Filters ==
  \/ \E value \in SortOptions : SortChange(value)
  \/ \E value \in folders \cup { ALL } : FolderChange(value)
  \/ FolderTouch
  \/ ClearAllFilters

Next == Load \/ Popstate \/ Refresh \/ Search \/ Filters

Spec == Init /\ [][Next]_vars

\* the page with no user at it: only the network and the timer act
NextRefresh == Load \/ Refresh

SpecRefresh == Init /\ [][NextRefresh]_vars

\* the sort step applied to every record list under every sort order
NextSort == SortStep

\* the catalog page untouched, any array and sort order handed to the sort step
InitSorting == InitCatalog /\ InitSortInputs /\ InitUpload /\ InitPlayer /\ InitUrl /\ InitSuggest /\ InitThumb /\ InitImage

SpecSort == InitSorting /\ [][NextSort]_vars

\* the upload page, opened with any saved draft
InitUploading == InitCatalog /\ InitSort /\ InitUploadPage /\ InitPlayer /\ InitUrl /\ InitSuggest /\ InitThumb /\ InitImage

NextUpload ==
  \/ UploaderInit
  \/ \E field \in TextFields : \E value \in TypedValues(field) : TypeField(field, value)
  \/ \E value \in existingFolders \cup { "", NewFolderOption } : SelectFolder(value)
  \/ \E value \in { "", " ", "Clips" } : TypeNewFolder(value)
  \/ \E outcome \in SubmitOutcomes : HandleSubmit(outcome)
  \/ SubmitContinuation

SpecUpload == InitUploading /\ [][NextUpload]_vars

\* the playback page, opened with any id parameter
InitPlaying == InitCatalog /\ InitSort /\ InitUpload /\ InitPlayerPage /\ InitUrl /\ InitSuggest /\ InitThumb /\ InitImage

NextPlayer ==
  \/ PlayerStart
  \/ \E outcome \in Outcomes : PlayerResponse(outcome)
  \/ \E body \in PlayerDocuments \cup { PlayerMalformed } : PlayerJson(body)

SpecPlayer == InitPlaying /\ [][NextPlayer]_vars

\* the URL functions, applied in any order to any URL
InitUrls == InitCatalog /\ InitSort /\ InitUpload /\ InitPlayer /\ InitUrlInputs /\ InitSuggest /\ InitThumb /\ InitImage

NextUrl ==
  \/ ClassifyOnUpload
  \/ ClassifyOnPlayback
  \/ ConvertOnUpload
  \/ ConvertOnPlayback
  \/ ExtractYouTubeId
  \/ RouteEmitted

SpecUrl == InitUrls /\ [][NextUrl]_vars

\* generateSearchSuggestions, called on any list of records
InitSuggesting ==
  InitCatalog /\ InitSort /\ InitUpload /\ InitPlayer /\ InitUrl /\ InitSuggestInputs /\ InitThumb /\ InitImage

NextSuggest == GenerateSearchSuggestions

SpecSuggestions == InitSuggesting /\ [][NextSuggest]_vars

\* the URL and thumbnail fields under any order of events and completions
InitThumbs ==
  InitCatalog /\ InitSort /\ InitUpload /\ InitPlayer /\ InitUrl /\ InitSuggest /\ InitThumbFields /\ InitImage

NextThumb ==
  \/ \E value \in UrlFieldValues : UrlInput(value)
  \/ UrlChange
  \/ UrlBlur
  \/ \E value \in ThumbnailTyped : ThumbnailInput(value)
  \/ ProcessDriveUrlDone

SpecThumb == InitThumbs /\ [][NextThumb]_vars

\* one image of the grid under load errors
InitImages ==
  InitCatalog /\ InitSort /\ InitUpload /\ InitPlayer /\ InitUrl /\ InitSuggest /\ InitThumb
    /\ InitImageRendered

NextImage ==
  \/ ImageLoadError
  \/ LazyObserve
  \/ LazyLoaded
  \/ LazyLoadError

SpecImage == InitImages /\ [][NextImage]_vars


(***************************************************************************)
(* The properties, by claim id.                                            *)
(***************************************************************************)

\* C1: once the initial load has completed and no typed text is still waiting
\* for its debounce timer, filteredVideos is the list the sort-and-filter
\* pipeline computes from the current videos, search box value, currentFolder
\* and currentSort.
C1_FilteredIsPipelineOfState ==
  (initDone /\ ~debounceTimer) =>
    filteredVideos = ApplySortAndFilter(videos, searchInput, currentFolder, currentSort)

\* C2: the list applySortAndFilter stores holds, exactly once each, exactly the
\* records of videos that contain the trimmed lower-cased term in title,
\* description or folder (all of them for an empty term) and, unless
\* currentFolder is "all", have exactly that folder; the list is in the order
\* of currentSort, records that compare equal keeping their order in videos.
C2_PipelineSelectsMatchingRecords ==
  LET term == trim(toLowerCase(searchInput))
      InVideos(v) == \E i \in 1..Len(videos) : videos[i] = v
      Index(v) == CHOOSE i \in 1..Len(videos) : videos[i] = v
      Contains(field) ==
        \E i \in 1..Len(field) : \E j \in i..Len(field) :
          toLowerCase(SubSeq(field, i, j)) = term
      Selected(v) ==
        /\ InVideos(v)
        /\ \/ term = <<>>
           \/ Contains(Video(v).title)
           \/ Contains(Video(v).description)
           \/ Contains(Video(v).folder)
        /\ currentFolder # ALL => Video(v).folder = currentFolder
      Occurrences(v) ==
        Cardinality({ i \in 1..Len(filteredVideos) : filteredVideos[i] = v })
      cmp == SortComparator(currentSort)
  IN  (\/ lastOp \in { "applySortAndFilter", "performSearch" }
       \/ lastOp = "refreshVideos" /\ Len(lastDoc) # currentVideoCount)
      => /\ \A v \in VideoIds : Occurrences(v) = IF Selected(v) THEN 1 ELSE 0
         /\ \A i, j \in 1..Len(filteredVideos) :
              i < j => \/ cmp[filteredVideos[i], filteredVideos[j]] < 0
                       \/ /\ cmp[filteredVideos[i], filteredVideos[j]] = 0
                          /\ Index(filteredVideos[i]) < Index(filteredVideos[j])

C2_Witness ==
  /\ lastOp = "performSearch"
  /\ trim(toLowerCase(searchInput)) # <<>>
  /\ currentFolder # ALL
  /\ Len(filteredVideos) = 1
  /\ Len(videos) = 2
  /\ \A i \in 1..Len(videos) : TextFilter(videos[i], trim(toLowerCase(searchInput)))


\* C3: a refresh that reaches the comparison replaces videos by the fetched
\* records (newest first) and recomputes filteredVideos from them with the
\* current search box value, currentFolder and currentSort when the fetched
\* count differs from the current count, and leaves videos and filteredVideos
\* as they were when the counts are equal.
C3_RefreshReplacesIffCountDiffers ==
  [][lastOp' = "refreshVideos" =>
       IF Len(lastDoc') # Len(videos)
       THEN /\ videos' = sort(lastDoc', NewestFirst)
            /\ { videos'[i] : i \in 1..Len(videos') }
                 = { lastDoc'[i] : i \in 1..Len(lastDoc') }
            /\ filteredVideos' = ApplySortAndFilter(videos', searchInput',
                                                    currentFolder', currentSort')
       ELSE /\ videos' = videos
            /\ filteredVideos' = filteredVideos]_vars

\* a refresh has replaced videos while a filter was active
C3_Witness ==
  /\ lastOp = "refreshVideos"
  /\ Len(lastDoc) # currentVideoCount
  /\ videos = sort(lastDoc, NewestFirst)
  /\ Len(filteredVideos) < Len(videos)

\* a refresh has left videos alone although the fetched records differ
C3_SameCountWitness ==
  /\ lastOp = "refreshVideos"
  /\ Len(lastDoc) = currentVideoCount
  /\ Len(lastDoc) = 2
  /\ \A i \in 1..Len(lastDoc) : \A j \in 1..Len(videos) : lastDoc[i] # videos[j]

\* C4 as claimed: once two overlapping refreshes have both been processed,
\* videos holds the records of the response that completed last.
C4_LastResponseWins ==
  (/\ overlap
   /\ pending["refresh", "fetch"] + pending["refresh", "json"] = 0
   /\ lastOp = "refreshVideos")
  => videos = sort(lastDoc, NewestFirst)

\* C4 as amended: once two overlapping refreshes have both been processed,
\* videos has as many records as the response that completed last, and holds
\* that response's records when its count differed from the count of videos
\* at the moment it was processed.
C4_LastResponseWinsOnCountChange ==
  (/\ overlap
   /\ pending["refresh", "fetch"] + pending["refresh", "json"] = 0
   /\ lastOp = "refreshVideos")
  => /\ Len(videos) = Len(lastDoc)
     /\ Len(lastDoc) # currentVideoCount => videos = sort(lastDoc, NewestFirst)

\* both overlapping responses are processed and the last one, of the same
\* count as the first, was ignored
C4_Witness ==
  /\ overlap
  /\ nTicks = 2
  /\ pending["refresh", "fetch"] + pending["refresh", "json"] = 0
  /\ lastOp = "refreshVideos"
  /\ Len(lastDoc) = currentVideoCount
  /\ videos # sort(lastDoc, NewestFirst)

\* C5: when the initial load has failed and init has finished, videos and
\* filteredVideos are empty and the grid shows the error state.
C5_InitialLoadFailureShowsError ==
  (initDone /\ nPopstate = 0 /\ lastOp = "loadFailed")
  => /\ videos = <<>>
     /\ filteredVideos = <<>>
     /\ grid = "error-state"

\* C6: after performSearch with an empty or whitespace-only term,
\* filteredVideos is videos in its order and no record carries a score.
C6_EmptySearchIsIdentity ==
  (lastOp = "performSearch" /\ trim(toLowerCase(searchInput)) = <<>>)
  => /\ filteredVideos = videos
     /\ \A i \in 1..Len(videos) : searchScore[videos[i]] = Undefined

\* C7: after performSearch with a non-empty term every record of videos has
\* one score: 100 when the term is its whole title or description, else 50
\* when the title contains the term, else 40 when the folder does, else 25
\* when the description does, else 0; and no record of the result scores 0.
C7_ScoreIsHighestApplicable ==
  LET term == trim(toLowerCase(searchInput))
      Contains(field) ==
        \E i \in 1..Len(field) : \E j \in i..Len(field) :
          toLowerCase(SubSeq(field, i, j)) = term
      Whole(field) == toLowerCase(field) = term
      Expected(r) ==
        IF Whole(r.title) \/ Whole(r.description) THEN 100
        ELSE IF Contains(r.title) THEN 50
        ELSE IF Contains(r.folder) THEN 40
        ELSE IF Contains(r.description) THEN 25
        ELSE 0
  IN  (lastOp = "performSearch" /\ term # <<>>)
      => /\ \A i \in 1..Len(videos) :
              /\ searchScore[videos[i]] = Expected(Video(videos[i]))
              /\ searchScore[videos[i]] \in { 0, 25, 40, 50, 100 }
         /\ \A i \in 1..Len(filteredVideos) : searchScore[filteredVideos[i]] # 0

\* a search has scored a record that matches in two fields, and another record
C7_Witness ==
  /\ lastOp = "performSearch"
  /\ trim(toLowerCase(searchInput)) # <<>>
  /\ \E i, j \in 1..Len(videos) :
       /\ searchScore[videos[i]] = 40
       /\ descriptionMatch(videos[i], trim(toLowerCase(searchInput)))
       /\ searchScore[videos[j]] = 100

\* C8: after performSearch with a non-empty term filteredVideos is in
\* non-increasing order of score, equal scores in the order of videos.
C8_SearchResultByRelevance ==
  LET Index(v) == CHOOSE i \in 1..Len(videos) : videos[i] = v
  IN  (lastOp = "performSearch" /\ trim(toLowerCase(searchInput)) # <<>>)
      => \A i, j \in 1..Len(filteredVideos) :
           i < j =>
             \/ searchScore[filteredVideos[i]] > searchScore[filteredVideos[j]]
             \/ /\ searchScore[filteredVideos[i]] = searchScore[filteredVideos[j]]
                /\ Index(filteredVideos[i]) < Index(filteredVideos[j])

\* C9: the pipeline applied to its own output, with the same term, folder and
\* sort, returns that output: for the list applySortAndFilter has just stored
\* under the current search box value, currentFolder and currentSort, and, for
\* every list of records a load installs, under every search box value, every
\* folder of the records and every sort.
C9_PipelineIdempotent ==
  /\ (\/ lastOp \in { "applySortAndFilter", "performSearch" }
      \/ lastOp = "refreshVideos" /\ Len(lastDoc) # currentVideoCount)
     => ApplySortAndFilter(filteredVideos, searchInput, currentFolder, currentSort)
          = filteredVideos
  /\ lastOp = "loadVideos" =>
       \A term \in SearchInputs :
         \A folder \in { ALL } \cup { Video(v).folder : v \in VideoIds } :
           \A sortKey \in SortOptions :
             LET once == ApplySortAndFilter(videos, term, folder, sortKey)
             IN  ApplySortAndFilter(once, term, folder, sortKey) = once

\* applySortAndFilter has stored two records that compare equal under "oldest"
C9_Witness ==
  /\ lastOp = "applySortAndFilter"
  /\ currentSort = "oldest"
  /\ Len(filteredVideos) = 2
  /\ SortComparator(currentSort)[filteredVideos[1], filteredVideos[2]] = 0
  /\ ApplySortAndFilter(filteredVideos, searchInput, currentFolder, currentSort)
       = filteredVideos

\* C10: under "newest" the list applySortAndFilter stores is in non-increasing
\* order of dateAdded, under "oldest" in non-decreasing order.
C10_DateOrder ==
  (\/ lastOp \in { "applySortAndFilter", "performSearch" }
   \/ lastOp = "refreshVideos" /\ Len(lastDoc) # currentVideoCount)
  => \A i, j \in 1..Len(filteredVideos) :
       i < j =>
         /\ currentSort = "newest" =>
              Video(filteredVideos[i]).dateAdded >= Video(filteredVideos[j]).dateAdded
         /\ currentSort = "oldest" =>
              Video(filteredVideos[i]).dateAdded <= Video(filteredVideos[j]).dateAdded

\* applySortAndFilter has put an older record before a newer one under "oldest"
C10_Witness ==
  /\ lastOp = "applySortAndFilter"
  /\ currentSort = "oldest"
  /\ Len(filteredVideos) = 2
  /\ Video(filteredVideos[1]).dateAdded < Video(filteredVideos[2]).dateAdded

\* C11: the list the sort step leaves under "newest" or "oldest" is ordered by
\* date with a date that does not parse counting as the oldest: under "newest"
\* no record comes before a record that is newer, so the records without a
\* valid date come last; under "oldest" no record comes before a record that
\* is older, so they come first; whatever the order of the input.
C11_UnparseableRanksOldest ==
  LET date(v) == Video(v).dateAdded
      \* a is at most as new as b
      NotNewer(a, b) == date(a) = NaN \/ (date(b) # NaN /\ date(a) <= date(b))
  IN  \A i, j \in 1..Len(sortOutput) :
        i < j =>
          /\ sortOrder = "newest" => NotNewer(sortOutput[j], sortOutput[i])
          /\ sortOrder = "oldest" => NotNewer(sortOutput[i], sortOutput[j])

\* C12: currentSort is one of the four option values of sortSelect, and the
\* list applySortAndFilter stores is in the order of that value: under "title"
\* (the ascending title order) no title comes before a title that localeCompare
\* puts before it, under "title-desc" none comes before a title that
\* localeCompare puts after it, under "newest" the dates do not increase and
\* under "oldest" they do not decrease.
C12_EverySortValueOrders ==
  LET title(i) == Video(filteredVideos[i]).title
      date(i) == Video(filteredVideos[i]).dateAdded
  IN  /\ currentSort \in { "newest", "oldest", "title", "title-desc" }
      /\ (\/ lastOp \in { "applySortAndFilter", "performSearch" }
          \/ lastOp = "refreshVideos" /\ Len(lastDoc) # currentVideoCount)
         => \A i, j \in 1..Len(filteredVideos) :
              i < j =>
                /\ currentSort = "title" => localeCompare(title(i), title(j)) <= 0
                /\ currentSort = "title-desc" => localeCompare(title(i), title(j)) >= 0
                /\ currentSort = "newest" => date(i) >= date(j)
                /\ currentSort = "oldest" => date(i) <= date(j)

\* applySortAndFilter under "title-desc" has exchanged two records of videos
\* whose titles differ, which none of the other three orders would have done
C12_Witness ==
  /\ lastOp = "applySortAndFilter"
  /\ currentSort = "title-desc"
  /\ Len(videos) = 2
  /\ filteredVideos = << videos[2], videos[1] >>
  /\ localeCompare(Video(videos[1]).title, Video(videos[2]).title) < 0
  /\ sort(videos, SortComparator("title")) = videos
  /\ sort(videos, SortComparator("newest")) = videos
  /\ sort(videos, SortComparator("oldest")) = videos

\* C13: in every state currentFolder is "all" or the folder of a record of
\* videos.
C13_CurrentFolderExists ==
  \/ currentFolder = ALL
  \/ \E i \in 1..Len(videos) : Video(videos[i]).folder = currentFolder

\* C14: a submit event on a form that validateForm rejects appends no modal
\* with a video record, leaves isSubmitting false, leaves the saved draft as
\* it is, and leaves nothing of handleSubmit pending.
C14_RejectedSubmitBlocks ==
  [][(nSubmits' = nSubmits + 1 /\ ~validateForm(getFormData(form)))
       => /\ modals' = modals
          /\ isSubmitting = FALSE /\ isSubmitting' = FALSE
          /\ draft' = draft
          /\ uploadPc' = "idle"]_vars

\* a form with a saved draft has been submitted and rejected
C14_Witness ==
  /\ lastSubmit = "rejected"
  /\ ~validateForm(getFormData(form))
  /\ draft.saved
  /\ draft = getFormData(form)
  /\ modals = <<>>
  /\ ~isSubmitting
  /\ fieldErrors # {}

C16_AbsentIdShowsNotFound ==
  (/\ playerPc = "done"
   /\ playerDoc # NoDocument
   /\ \A i \in 1..Len(playerDoc) : playerDoc[i] # videoId)
    => /\ playerView.kind = "error"
       /\ playerView.message = "Video not found"
       /\ playerView.kind \notin { "iframe", "video", "unsupported" }
       /\ playerView.message # "Failed to load video"
       /\ currentVideo = Null

\* a document with records, none of them the requested one, has been read
C16_Witness ==
  /\ playerPc = "done"
  /\ playerDoc # NoDocument
  /\ Len(playerDoc) = MaxPlayerVideos
  /\ videoId = "z"
  /\ playerView = [kind |-> "error", src |-> "", message |-> "Video not found"]

\* C17: each classifier that has been applied to the URL, the one of the
\* upload page and the one of the playback page, says GoogleDrive exactly
\* when the URL contains both "drive.google.com" and "/file/d/", YouTube only
\* when the URL is not GoogleDrive and matches the anchored YouTube pattern,
\* DirectVideo only when it is neither and parses as an absolute URL with a
\* listed video extension, and Unknown only when none of these holds.
C17_ClassifiersFollowOneRule ==
  LET drive == includes(givenUrl, "drive.google.com") /\ includes(givenUrl, "/file/d/")
      youTube == isValidYouTubeUrl(givenUrl)
      direct == /\ ParsesAsUrl(givenUrl)
                /\ \E k \in 1..Len(videoExtensions) :
                     includes(lowerCase(givenUrl), videoExtensions[k])
      Follows(class) ==
        /\ class = "GoogleDrive" <=> drive
        /\ class = "YouTube" => ~drive /\ youTube
        /\ class = "DirectVideo" => ~drive /\ ~youTube /\ direct
        /\ class = "Unknown" => ~drive /\ ~youTube /\ ~direct
  IN  /\ uploadClass # Null => Follows(uploadClass)
      /\ playbackClass # Null => Follows(playbackClass)

\* C18: convertToEmbedUrl gives a result for every URL: for a GoogleDrive URL
\* with an extractable id the preview URL of that id, for a YouTube URL with an
\* extractable id the embed URL of that id, and in every other case the URL it
\* was given.  convertGoogleDriveUrl of the playback page likewise gives the
\* preview URL or the URL it was given.
C18_ConvertToEmbedUrlTotal ==
  LET class == UploadClassify(givenUrl)
      driveId == extractGoogleDriveFileId(givenUrl)
      tubeId == extractYouTubeVideoId(givenUrl)
  IN  /\ embedUrl # Null =>
           /\ class = "GoogleDrive" /\ driveId # Null
                => embedUrl = "https://drive.google.com/file/d/" \o driveId \o "/preview"
           /\ class = "YouTube" /\ tubeId # Null
                => embedUrl = "https://www.youtube.com/embed/" \o tubeId
           /\ class \in { "DirectVideo", "Unknown" } => embedUrl = givenUrl
           /\ class = "GoogleDrive" /\ driveId = Null => embedUrl = givenUrl
           /\ class = "YouTube" /\ tubeId = Null => embedUrl = givenUrl
           /\ givenUrl = "https://drive.google.com/file/d/1A2B3C/view"
                => embedUrl = "https://drive.google.com/file/d/1A2B3C/preview"
           /\ givenUrl = "https://www.youtube.com/watch?v=dQw4w9WgXcQ&t=10s"
                => embedUrl = "https://www.youtube.com/embed/dQw4w9WgXcQ"
           /\ givenUrl = "https://youtu.be/abc?from=drive.google.com/file/d/XYZ/view"
                => embedUrl = "https://drive.google.com/file/d/XYZ/preview"
           /\ givenUrl \in { "https://drive.google.com/file/d//view",
                             "youtube.com/playlist?list=PL1",
                             "https://cdn.example.com/clip.MP4",
                             "https://m.youtube.com/watch?v=abc", "" }
                => embedUrl = givenUrl
      /\ playbackSrc # Null =>
           \/ playbackSrc = givenUrl /\ driveId = Null
           \/ playbackSrc = "https://drive.google.com/file/d/" \o driveId \o "/preview"
                /\ driveId # Null

\* a GoogleDrive URL without an id has been converted on both pages
C18_Witness ==
  /\ givenUrl = "https://drive.google.com/file/d//view"
  /\ UploadClassify(givenUrl) = "GoogleDrive"
  /\ embedUrl = givenUrl
  /\ playbackSrc = givenUrl

\* C19 as stated: extractYouTubeVideoId returns the longest run of characters
\* of [A-Za-z0-9_-] that follows the first "watch?v=", "youtu.be/" or "embed/"
\* of the URL (null where that run is empty), and null when the URL holds none
\* of the three.
C19_IdFollowsFirstMarker ==
  youTubeId # "<unset>" =>
    LET markers == { "watch?v=", "youtu.be/", "embed/" }
        at == { << i, m >> \in (1..Len(givenUrl)) \X markers :
                  /\ i + Len(m) - 1 <= Len(givenUrl)
                  /\ SubSeq(givenUrl, i, i + Len(m) - 1) = m }
    IN  IF at = {} THEN youTubeId = Null
        ELSE \E h \in at :
               /\ \A g \in at : h[1] <= g[1]
               /\ LET run == IdRun(givenUrl, h[1] + Len(h[2]))
                  IN  youTubeId = IF run = "" THEN Null ELSE run

\* C19, amended: the markers carry their host ("youtube.com/watch?v=",
\* "youtu.be/", "youtube.com/embed/") and count only when a character of
\* [A-Za-z0-9_-] follows; the result is the longest run of such characters
\* after the leftmost marker.  Without such a marker, a URL that holds
\* "youtube.com/watch?" and after it "v=" with such a character gives the run
\* after the last such "v=".  Otherwise the result is null.  A result is never
\* empty and holds no character outside [A-Za-z0-9_-].
C19_IdFollowsHostMarkerOrLastV ==
  youTubeId # "<unset>" =>
    LET u == givenUrl
        Occurs(m, i) == i + Len(m) <= Len(u) /\ SubSeq(u, i, i + Len(m) - 1) = m
                          /\ CharAt(u, i + Len(m)) \in IdChars
        hosted == { << i, m >> \in (1..Len(u))
                                     \X { "youtube.com/watch?v=", "youtu.be/",
                                          "youtube.com/embed/" } : Occurs(m, i) }
        watch == { i \in 1..Len(u) :
                     i + 17 <= Len(u) /\ SubSeq(u, i, i + 17) = "youtube.com/watch?" }
        later == { i \in 1..Len(u) :
                     Occurs("v=", i) /\ \E w \in watch : i >= w + 18 }
    IN  /\ hosted # {} =>
              \E h \in hosted : /\ \A g \in hosted : h[1] <= g[1]
                                /\ youTubeId = IdRun(u, h[1] + Len(h[2]))
        /\ hosted = {} /\ later # {} =>
              \E i \in later : /\ \A j \in later : j <= i
                               /\ youTubeId = IdRun(u, i + 2)
        /\ hosted = {} /\ later = {} => youTubeId = Null
        /\ youTubeId # Null =>
              /\ Len(youTubeId) > 0
              /\ \A k \in 1..Len(youTubeId) : CharAt(youTubeId, k) \in IdChars
        /\ u = "https://youtu.be/dQw4w9WgXcQ" => youTubeId = "dQw4w9WgXcQ"
        /\ u = "https://youtu.be/dQw4w9WgXcQ?t=42" => youTubeId = "dQw4w9WgXcQ"
        /\ u = "https://www.youtube.com/watch?v=dQw4w9WgXcQ&t=10s"
             => youTubeId = "dQw4w9WgXcQ"
        /\ u = "https://www.youtube.com/watch?feature=share&v=abc_1"
             => youTubeId = "abc_1"
        /\ u = "https://www.youtube.com/watch?feature=share&v=abc_1&rv=xyz"
             => youTubeId = "xyz"
        /\ u \in { "https://example.com/embed/abc123",
                   "https://example.com/watch?v=abc123", "https://youtu.be/" }
             => youTubeId = Null

\* the id of a URL whose v parameter is not the first one has been extracted
C19_Witness ==
  /\ givenUrl = "https://www.youtube.com/watch?feature=share&v=abc_1"
  /\ youTubeId = "abc_1"

\* C20: the list generateSearchSuggestions produces has at most 10 entries,
\* all in lower case and pairwise distinct, and they are the first 10 distinct
\* tokens in the order of insertion: per record the title words longer than 2
\* characters, then the description words longer than 3 characters, then the
\* folder name.
C20_SuggestionsAreFirstTenTokens ==
  searchSuggestions # NoSuggestions =>
    LET s == searchSuggestions
        n == Len(s)
        Words(v, part) ==
          LET video == SuggestVideo(suggestVideos[v])
          IN  CASE part = 1 -> split(video.title)
                [] part = 2 -> split(video.description)
                [] part = 3 -> << video.folder >>
        \* the places a token can come from: record, part, word
        most == Max({ 0 } \cup { Len(Words(v, part)) :
                                     v \in 1..Len(suggestVideos), part \in 1..3 })
        places == { p \in (1..Len(suggestVideos)) \X (1..3) \X (1..most) :
                      /\ p[3] <= Len(Words(p[1], p[2]))
                      /\ LET word == Words(p[1], p[2])[p[3]]
                         IN  CASE p[2] = 1 -> Len(word) > 2
                               [] p[2] = 2 -> Len(word) > 3
                               [] p[2] = 3 -> Len(word) > 0 }
        Token(p) == lowerCase(Words(p[1], p[2])[p[3]])
        Before(p, q) ==
          \/ p[1] < q[1]
          \/ p[1] = q[1] /\ p[2] < q[2]
          \/ p[1] = q[1] /\ p[2] = q[2] /\ p[3] < q[3]
        \* the places where a token appears for the first time
        first == { p \in places :
                     \A q \in places : Before(q, p) => Token(q) # Token(p) }
    IN  /\ n <= 10
        /\ \A i \in 1..n : lowerCase(s[i]) = s[i]
        /\ \A i, j \in 1..n : i # j => s[i] # s[j]
        /\ n = IF Cardinality(first) < 10 THEN Cardinality(first) ELSE 10
        /\ \A i \in 1..n :
             \E p \in first :
               /\ Token(p) = s[i]
               /\ Cardinality({ q \in first : Before(q, p) }) = i - 1
        /\ suggestVideos = << "s1", "s2", "s3" >> =>
             s = << "big", "cat", "tricks", "does", "home", "pets",
                    "dog", "loud", "barking", "road" >>

\* more than 10 distinct tokens were there, with repeated ones among them
C20_Witness ==
  /\ suggestVideos = << "s5", "s3", "s1" >>
  /\ Len(searchSuggestions) = 10
  /\ searchSuggestions[5] = "fetch"
  /\ searchSuggestions[6] = "pets"
  /\ searchSuggestions[10] = "travel 2024"

\* C21: in every state of the catalog, every record of filteredVideos is a
\* record of videos, and no record is in filteredVideos more than once.
C21_FilteredWithinVideos ==
  /\ \A i \in 1..Len(filteredVideos) : \E j \in 1..Len(videos) : filteredVideos[i] = videos[j]
  /\ \A i, j \in 1..Len(filteredVideos) : i # j => filteredVideos[i] # filteredVideos[j]

\* a refresh has replaced videos under a filter that keeps some of the new
\* records and drops others
C21_Witness ==
  /\ lastOp = "refreshVideos"
  /\ CountChanged(Len(lastDoc), currentVideoCount)
  /\ Len(filteredVideos) > 0
  /\ Len(filteredVideos) < Len(videos)

\* C22: a periodic refresh that fails (fetch rejected, response not ok, or a
\* body that cannot be read) leaves videos, filteredVideos, folders, the
\* search box, the folder and sort selections and the grid as they were: no
\* error state is shown.
C22_FailedRefreshChangesNothing ==
  [][lastOp' = "refreshFailed" /\ pending' # pending
       => /\ UNCHANGED << videos, filteredVideos, folders, searchScore >>
          /\ UNCHANGED << searchInput, currentFolder, folderSelect, currentSort >>
          /\ grid' = grid
          /\ grid' # "error"]_vars

\* a refresh has failed on a loaded catalog with a folder selected
C22_Witness ==
  /\ lastOp = "refreshFailed"
  /\ Len(videos) > 0
  /\ currentFolder # ALL
  /\ Len(filteredVideos) > 0

C24_EmittedUrlRoutedAsClassified ==
  routedClass # Null /\ validateDriveUrl(givenUrl)
    => routedClass = UploadClassify(givenUrl)

\* C25: a clearAllFilters step, from whatever state it is taken, ends with
\* currentSort "newest", currentFolder "all", an empty search box, and
\* filteredVideos holding every record of videos once, newest first.
C25_ClearAllFiltersResets ==
  [][ClearAllFilters
       => /\ currentSort' = "newest"
          /\ currentFolder' = ALL
          /\ folderSelect' = ALL
          /\ searchInput' = <<>>
          /\ Len(filteredVideos') = Len(videos')
          /\ \A i \in 1..Len(videos') :
               \E j \in 1..Len(filteredVideos') : filteredVideos'[j] = videos'[i]
          /\ \A i, j \in 1..Len(filteredVideos') :
               i < j => Video(filteredVideos'[i]).dateAdded
                          >= Video(filteredVideos'[j]).dateAdded]_vars

\* the state clearAllFilters leaves on a full catalog when it is the last of
\* the events
C25_Witness ==
  /\ nEvents = MaxEvents
  /\ lastOp = "performSearch"
  /\ Len(videos) = MaxVideos
  /\ filteredVideos = videos
  /\ currentSort = "newest"
  /\ currentFolder = ALL
  /\ folderSelect = ALL
  /\ searchInput = <<>>

\* C26: once init has completed on a page that found a saved draft, the URL,
\* title, description, thumbnail and folder the form yields are the saved
\* ones, for an existing folder and for a new folder name.
C26_DraftFullyRestored ==
  [][uploadPc = "init" /\ uploadPc' = "idle" /\ draft.saved
       => LET data == getFormData(form')
          IN  /\ data.driveUrl = draft.driveUrl
              /\ data.title = draft.title
              /\ data.description = draft.description
              /\ data.thumbnailUrl = draft.thumbnailUrl
              /\ data.folder = draft.folder]_vars

\* C27: under every order of input, change and blur events on the URL field,
\* of typing into the thumbnail field and of completions of processDriveUrl,
\* a handler that generates a thumbnail writes the thumbnail field only when
\* the field is empty at that moment.
C27_ThumbnailNeverOverwritten ==
  [][lastThumbOp' \in { "input", "change", "process" }
       /\ thumbnailField' # thumbnailField
       /\ (nUrlEvents' # nUrlEvents \/ processing' # processing)
       => thumbnailField = ""]_vars

\* a processDriveUrl call has completed after the user filled in a thumbnail
\* while it waited
C27_Witness ==
  /\ lastThumbOp = "process"
  /\ thumbnailField = "https://img.example.com/t.png"
  /\ nUrlEvents = MaxUrlEvents
  /\ isValidGoogleDriveUrl(urlField)

\* C28: the values handleThumbnailError gives the src of one image are, call
\* after call, the Drive thumbnail URL, then the lh3 URL, then the
\* placeholder: at most two Drive fallbacks, none of them a second time, the
\* placeholder from the third call on, and the onerror attribute removed
\* once the placeholder is written; an image whose record is not a Drive URL
\* gets the placeholder at the first call.
C28_FallbackChainEndsAtPlaceholder ==
  LET n == Len(imageWrites)
      fileId == ImageFileId(imageDriveUrl)
      isDrive == /\ imageDriveUrl \notin { Null, "" }
                 /\ includes(imageDriveUrl, "drive.google.com")
  IN  /\ n >= 1 =>
           /\ imageWrites[1] \in
                { Placeholder } \cup
                  (IF fileId = Null THEN {} ELSE { DriveThumbnailFallback(fileId) })
           /\ ~isDrive => imageWrites[1] = Placeholder
      /\ n >= 2 =>
           imageWrites[2] \in
             { Placeholder } \cup (IF fileId = Null THEN {} ELSE { Lh3Fallback(fileId) })
      /\ \A k \in 3..n : imageWrites[k] = Placeholder
      /\ \A j, k \in 1..n :
           j < k =>
             /\ imageWrites[j] = Placeholder => imageWrites[k] = Placeholder
             /\ imageWrites[k] # Placeholder => imageWrites[j] # imageWrites[k]
      /\ Cardinality({ imageWrites[k] : k \in 1..n } \ { Placeholder }) <= 2
      /\ (\E k \in 1..n : imageWrites[k] = Placeholder) =>
           /\ ~image.onerror
           /\ image.src \in { Placeholder, lazy.src }

\* three load errors took the image of a Drive record through both fallbacks
\* to the placeholder
C28_Witness ==
  /\ Len(imageWrites) = 3
  /\ imageWrites = << DriveThumbnailFallback("1A2B3C"), Lh3Fallback("1A2B3C"), Placeholder >>
  /\ image.src = Placeholder
  /\ ~image.onerror

=============================================================================
